---- MODULE Spec2Model ----
(***************************************************************************)
(* Verification model of the ocp_dnsnameresolver CoreDNS plugin            *)
(* (openshift/coredns-ocp-dnsnameresolver).                                *)
(*                                                                         *)
(* DNS names are sequences of labels ("www.example.com." is                *)
(* <<"www","example","com">>), instants and TTLs are whole seconds.        *)
(* A DNSNameResolver status is the sequence status.resolvedNames; each     *)
(* entry is [dnsName, addrs, failures, conds] where addrs is the sequence  *)
(* resolvedAddresses of [ip, ttl, last] and conds is the conditions        *)
(* sequence (at most the one "Degraded" condition; lastTransitionTime is   *)
(* not modelled).                                                          *)
(***************************************************************************)
EXTENDS Integers, Sequences, FiniteSets, TLC

VARIABLES
    \* --- the DNSNameResolver object (in SpecRetry: as kept by the API server)
    specName,         \* spec.name of the object
    status,           \* status.resolvedNames of the object
    now,              \* wall clock (seconds)
    \* --- SpecUpd: lookups applied one after another
    lastOp,           \* the last update applied: kind, dnsName, ipTTLs, rpc issued
    nOps,             \* number of updates (SpecRetry: update loops) started so far
    \* --- SpecRetry: concurrent update loops on the object
    resourceVersion,  \* metadata.resourceVersion of the stored object
    lister,           \* the informer cache's copy: [rv, names]
    events,           \* watch events not yet applied to the informer cache
    loops,            \* per update goroutine: the state of its retry loop
    \* --- SpecServe: ServeDNS requests against the name index
    regularDNSInfo,   \* resolver.regularDNSInfo: DNS name -> namespace -> object name
    wildcardDNSInfo,  \* resolver.wildcardDNSInfo
    crs,              \* status.resolvedNames of every DNSNameResolver object
    req,              \* the request ServeDNS is handling and its local variables
    hit,              \* the goroutine of each hit (regular, wildcard)
    crPc,             \* the update goroutine of each object
    reads,            \* objects read on behalf of the request
    writes,           \* objects for which UpdateStatus was called on its behalf
    \* --- SpecIndex: the informer's add and delete events
    objects,          \* the DNSNameResolver objects that exist: <<ns, name>> -> spec.name
    lastEvent,        \* the last event delivered to AddFunc / DeleteFunc
    \* --- SpecSched: the operator's Resolver (time in milliseconds)
    dnsNames,         \* res.dnsNames: DNS name -> dnsResolvedName
    regularObjInfo,   \* res.regularObjInfo: object name -> DNS name
    wildcardObjInfo,  \* res.wildcardObjInfo: object name -> set of DNS names
    added,            \* number of signals buffered in the added channel
    deleted,          \* the DNS names buffered in the deleted channel
    dnsLock,          \* holder of res.dnsLock: "none", "caller" or "loop"
    caller,           \* the goroutine that calls Add and Delete
    timerLoop,        \* the goroutine of Start and its local variables
    \* --- SpecLookup: one call of lookupDNSName
    podLookup,        \* the call: its arguments, local variables and queries sent
    \* --- SpecShutdown: the OnShutdown callback of the plugin
    stopLock,         \* holder of resolver.stopLock, or "none"
    shutdown,         \* resolver.shutdown
    stopCh,           \* number of times resolver.stopCh was closed
    onShut,           \* the goroutines that call OnShutdown
    \* --- SpecCRD: the reconciler of the DNSNameResolver CRD
    reconcilers,      \* the goroutines that call Reconcile
    startCaches,      \* r.startCaches (sync.Once): "new", holder or "done"
    startControllers, \* r.startControllers (sync.Once)
    dependentCaches,  \* per dependent cache: its Start and WaitForCacheSync goroutines
    dependentControllers, \* per dependent controller: its Start goroutine
    \* --- SpecRace: ServeDNS next to the informer's handlers
    regularMapLock,   \* holder of resolver.regularMapLock, or "none"
    wildcardMapLock,  \* holder of resolver.wildcardMapLock, or "none"
    informer,         \* the informer goroutine inside AddFunc / DeleteFunc
    serve             \* the ServeDNS goroutine: its position and the map it reads

updVars == <<specName, status, now, lastOp, nOps>>

retryVars == <<resourceVersion, lister, events, loops>>

serveVars == <<regularDNSInfo, wildcardDNSInfo, crs, req, hit, crPc, reads, writes>>

informerVars == <<objects, lastEvent>>

schedVars == <<dnsNames, regularObjInfo, wildcardObjInfo, added, deleted, dnsLock,
               caller, timerLoop>>

\* the variables of the specifications added after SpecServe
lookupVars == <<podLookup>>

shutVars == <<stopLock, shutdown, stopCh, onShut>>

crdVars == <<reconcilers, startCaches, startControllers, dependentCaches,
             dependentControllers>>

raceVars == <<regularMapLock, wildcardMapLock, informer, serve>>

moreVars == <<lookupVars, shutVars, crdVars, raceVars>>

idleVars == <<informerVars, schedVars, moreVars>>

vars == <<specName, status, now, lastOp, nOps, resourceVersion, lister, events, loops,
          regularDNSInfo, wildcardDNSInfo, crs, req, hit, crPc, reads, writes,
          objects, lastEvent,
          dnsNames, regularObjInfo, wildcardObjInfo, added, deleted, dnsLock,
          caller, timerLoop, podLookup, stopLock, shutdown, stopCh, onShut,
          reconcilers, startCaches, startControllers, dependentCaches,
          dependentControllers, regularMapLock, wildcardMapLock, informer, serve>>

-----------------------------------------------------------------------------
(* Bounds of the model *)

MaxTime == 12

TickStep == 6

\* resolver.failureThreshold as configured (any integer > 0)
failureThreshold == 2

\* number of lookups applied to the object in one behaviour of SpecUpd
MaxOps == 4

\* number of update goroutines started in one behaviour of SpecRetry
MaxLoops == 2

\* number of ServeDNS calls in one behaviour of SpecServe
MaxRequests == 2

\* writes by other clients stop once the object reached this resourceVersion
MaxOtherVersion == 2

\* SpecSched: calls of Add and Delete
MaxCalls == 4

\* SpecSched: advances of the clock
MaxTicks == 1

\* SpecConflict: the resourceVersion the writes of other clients stop at
MaxConflictVersion == 6

\* SpecLag: status updates another replica gets stored
MaxLagOps == 4

\* SpecSchedFair: calls of Add
MaxFairCalls == 2

\* SpecShutdown: calls of OnShutdown per goroutine
MaxShutCalls == 2

\* SpecCRD: calls of Reconcile per worker goroutine
MaxReconciles == 2

\* SpecRace: watch events handled, and calls of ServeDNS per goroutine
MaxRaceEvents == 3

MaxServes == 1

-----------------------------------------------------------------------------
(* Program constants *)

\* resolver.minimumTTL, at its default defaultMinTTL
minimumTTL == 5

RcodeSuccess == 0

RcodeServerFailure == 2

RcodeNameError == 3

\* the equivalence margin of isSameNextLookupTime
MarginSeconds == 5

ConditionDegraded == "Degraded"

ConditionTrue == "True"

ConditionFalse == "False"

RcodeToString(rcode) ==
    CASE rcode = RcodeSuccess -> "NOERROR"
      [] rcode = RcodeServerFailure -> "SERVFAIL"
      [] rcode = RcodeNameError -> "NXDOMAIN"
      [] OTHER -> ""

rcodeMessage(rcode) ==
    CASE rcode = RcodeSuccess -> "No Error"
      [] rcode = RcodeServerFailure -> "Server Failure"
      [] rcode = RcodeNameError -> "Non-Existent Domain"
      [] OTHER -> ""

-----------------------------------------------------------------------------
(* Names *)

WildcardName == <<"*", "example", "com">>

WwwName == <<"www", "example", "com">>

SubName == <<"sub", "example", "com">>

\* strings.ToLower on one label, for the labels the model uses
LowerLabel(l) == IF l = "WWW" THEN "www" ELSE IF l = "Example" THEN "example" ELSE l

ToLower(name) == [i \in DOMAIN name |-> LowerLabel(name[i])]

EqualFold(a, b) == ToLower(a) = ToLower(b)

\* strings.HasPrefix(dnsName, "*.")
isWildcard(dnsName) == Len(dnsName) >= 1 /\ dnsName[1] = "*"

\* the wildcard covering a regular name: first label replaced by "*"
getWildcard(dnsName) ==
    IF isWildcard(dnsName) THEN dnsName ELSE <<"*">> \o Tail(dnsName)

-----------------------------------------------------------------------------
(* Time helpers *)

Abs(x) == IF x < 0 THEN -x ELSE x

\* t is time.Now() as read inside the helper
isSameNextLookupTime(t, existingLastLookupTime, existingTTL, currentTTL) ==
    Abs((existingLastLookupTime + existingTTL) - (t + currentTTL)) <= MarginSeconds

-----------------------------------------------------------------------------
(* Sequence helpers *)

Range(s) == {s[i] : i \in DOMAIN s}

IPsOf(addrs) == {addrs[i].ip : i \in DOMAIN addrs}

NamesOf(names) == {names[i].dnsName : i \in DOMAIN names}

\* all orders in which a Go map with key set S can be ranged over
MapOrders(S) ==
    {o \in [1..Cardinality(S) -> S] : \A i, j \in 1..Cardinality(S) : i # j => o[i] # o[j]}

SuccessCondition ==
    [type |-> ConditionDegraded, status |-> ConditionFalse,
     reason |-> RcodeToString(RcodeSuccess), message |-> rcodeMessage(RcodeSuccess)]

FailureCondition(rcode) ==
    [type |-> ConditionDegraded, status |-> ConditionTrue,
     reason |-> RcodeToString(rcode), message |-> rcodeMessage(rcode)]

-----------------------------------------------------------------------------
(* Pure functions of the handler.  Positions are the 0-based Go indices;    *)
(* element index of the Go slice is element index+1 of the sequence.        *)

\* isMatchingResolvedName: every address of resolvedName is in ipTTLs with the
\* same next lookup time, and ipTTLs has no further IP
isMatchingResolvedName(t, ipTTLs, resolvedName) ==
    LET addrs == resolvedName.addrs
        \* first position at which the loop breaks with matched = false
        bad == {i \in DOMAIN addrs :
                   \/ addrs[i].ip \notin DOMAIN ipTTLs
                   \/ ~isSameNextLookupTime(t, addrs[i].last, addrs[i].ttl, ipTTLs[addrs[i].ip])}
        matchedIPTTLs == IPsOf(addrs)
    IN  /\ bad = {}
        /\ Cardinality(DOMAIN ipTTLs) = Cardinality(matchedIPTTLs)

\* first loop of addUpdateResolvedNameIPTTLs: the existing addresses, those
\* whose next lookup time changed taking the answered ttl and the current time
isStaleAddress(addr, ipTTLs, t) ==
    /\ addr.ip \in DOMAIN ipTTLs
    /\ ~isSameNextLookupTime(t, addr.last, addr.ttl, ipTTLs[addr.ip])

refreshedAddresses(addrs, ipTTLs, t) ==
    [i \in DOMAIN addrs |->
        IF isStaleAddress(addrs[i], ipTTLs, t)
        THEN [ip |-> addrs[i].ip, ttl |-> ipTTLs[addrs[i].ip], last |-> t]
        ELSE addrs[i]]

\* second loop: the addresses appended for the IPs of ipTTLs not in
\* matchedIPTTLs, in the order the map is ranged over
appendedAddresses(matchedIPTTLs, ipTTLs, order, t) ==
    LET IsNew(ip) == ip \notin matchedIPTTLs
        newIPs == SelectSeq(order, IsNew)
    IN  [i \in DOMAIN newIPs |-> [ip |-> newIPs[i], ttl |-> ipTTLs[newIPs[i]], last |-> t]]

\* mutant: a condition that is already set is left as it is
successConditions_KeepExisting(conds) ==
    IF Len(conds) = 0 THEN <<SuccessCondition>> ELSE conds

\* the Degraded condition after a success
successConditions(conds) ==
    IF Len(conds) = 0
    THEN <<SuccessCondition>>
    ELSE IF conds[1].status # ConditionFalse
    THEN [conds EXCEPT ![1] = SuccessCondition]
    ELSE conds

\* mutant: every answered IP is appended, also the ones already present
addUpdateResolvedNameIPTTLs_AppendAll(index, ipTTLs, order, t, names) ==
    LET entry == names[index + 1]
        appended == appendedAddresses({}, ipTTLs, order, t)
    IN  [names |-> [names EXCEPT ![index + 1] =
                      [dnsName |-> entry.dnsName,
                       addrs |-> refreshedAddresses(entry.addrs, ipTTLs, t) \o appended,
                       failures |-> 0,
                       conds |-> successConditions(entry.conds)]],
         statusUpdated |-> TRUE]

\* mutant: an answered IP is refreshed whether or not its next lookup time moved
addUpdateResolvedNameIPTTLs_AlwaysRefresh(index, ipTTLs, order, t, names) ==
    LET entry == names[index + 1]
        addrs == entry.addrs
        appended == appendedAddresses(IPsOf(addrs) \cap DOMAIN ipTTLs, ipTTLs, order, t)
    IN  [names |-> [names EXCEPT ![index + 1] =
                      [dnsName |-> entry.dnsName,
                       addrs |-> [i \in DOMAIN addrs |->
                                    IF addrs[i].ip \in DOMAIN ipTTLs
                                    THEN [ip |-> addrs[i].ip, ttl |-> ipTTLs[addrs[i].ip], last |-> t]
                                    ELSE addrs[i]] \o appended,
                       failures |-> 0,
                       conds |-> successConditions(entry.conds)]],
         statusUpdated |-> TRUE]

\* addUpdateResolvedNameIPTTLs: merge ipTTLs into names[index]; order is the
\* order in which the ipTTLs map is ranged over
addUpdateResolvedNameIPTTLs(index, ipTTLs, order, t, names) ==
    LET entry == names[index + 1]
        addrs == entry.addrs
        matchedIPTTLs == IPsOf(addrs) \cap DOMAIN ipTTLs
        appended == appendedAddresses(matchedIPTTLs, ipTTLs, order, t)
        newEntry == [dnsName |-> entry.dnsName,
                     addrs |-> refreshedAddresses(addrs, ipTTLs, t) \o appended,
                     failures |-> 0,
                     conds |-> successConditions(entry.conds)]
    IN  [names |-> [names EXCEPT ![index + 1] = newEntry],
         statusUpdated |-> \/ \E i \in DOMAIN addrs : isStaleAddress(addrs[i], ipTTLs, t)
                           \/ Len(appended) > 0
                           \/ successConditions(entry.conds) # entry.conds]

\* the wildcardIPTTLs map built by isRegularMatchingWildcardResolvedName
wildcardIPTTLsOf(foundDNSName, names, ipTTLs, t) ==
    LET waddrs == IF foundDNSName THEN names[1].addrs ELSE <<>>
        \* a later address with the same IP overwrites an earlier one
        lastPos(ip) == CHOOSE i \in DOMAIN waddrs :
                          /\ waddrs[i].ip = ip
                          /\ \A j \in DOMAIN waddrs : waddrs[j].ip = ip => j <= i
    IN  [ip \in IPsOf(waddrs) \cup DOMAIN ipTTLs |->
            IF ip \in DOMAIN ipTTLs
            THEN ipTTLs[ip]
            ELSE waddrs[lastPos(ip)].ttl - (t - waddrs[lastPos(ip)].last)]

isRegularMatchingWildcardResolvedName(foundDNSName, names, resolvedName, ipTTLs, t) ==
    LET wildcardIPTTLs == wildcardIPTTLsOf(foundDNSName, names, ipTTLs, t)
        addrs == resolvedName.addrs
    IN  \A i \in DOMAIN addrs :
            /\ addrs[i].ip \in DOMAIN wildcardIPTTLs
            /\ isSameNextLookupTime(t, addrs[i].last, addrs[i].ttl, wildcardIPTTLs[addrs[i].ip])

\* the loop of removeResolvedNames: index is the loop variable of
\* "for index := range indicesToRemove"
RECURSIVE removeLoop(_, _, _, _)
removeLoop(indicesToRemove, index, count, names) ==
    IF index >= Len(indicesToRemove)
    THEN [names |-> names, count |-> count]
    ELSE removeLoop(indicesToRemove, index + 1, count + 1,
            IF Len(names) = index - count + 1
            THEN SubSeq(names, 1, index - count)
            ELSE SubSeq(names, 1, index - count)
                   \o SubSeq(names, index - count + 2, Len(names)))

removeResolvedNames(indicesToRemove, names) ==
    LET r == removeLoop(indicesToRemove, 0, 0, names)
    IN  [names |-> r.names, removed |-> r.count # 0]

\* the entry addResolvedName creates
newResolvedName(dnsName, t, ipTTLs, order) ==
    [dnsName |-> dnsName,
     addrs |-> [i \in DOMAIN order |->
                  [ip |-> order[i], ttl |-> ipTTLs[order[i]], last |-> t]],
     failures |-> 0,
     conds |-> <<SuccessCondition>>]

\* mutant: every new entry goes to the end of the list
addResolvedName_AlwaysAppend(dnsName, t, ipTTLs, order, names) ==
    Append(names, newResolvedName(dnsName, t, ipTTLs, order))

\* addResolvedName: wildcard entry in front, regular entry at the end
addResolvedName(dnsName, t, ipTTLs, order, names) ==
    IF isWildcard(dnsName)
    THEN <<newResolvedName(dnsName, t, ipTTLs, order)>> \o names
    ELSE Append(names, newResolvedName(dnsName, t, ipTTLs, order))

-----------------------------------------------------------------------------
(* One attempt of the success update: the body of the retry closure of      *)
(* updateResolvedNamesSuccess between the read and the UpdateStatus call.   *)

\* the walk over status.resolvedNames; orig is the slice ranged over, st the
\* local variables of the closure
RECURSIVE successWalk(_, _, _, _, _, _, _, _)
successWalk(orig, index, st, specDNSName, dnsName, ipTTLs, order, t) ==
    IF index >= Len(orig)
    THEN st
    ELSE LET resolvedName == orig[index + 1]
             st1 ==
                IF /\ isWildcard(specDNSName)
                   /\ ~isWildcard(dnsName)
                   /\ EqualFold(resolvedName.dnsName, specDNSName)
                THEN \* Case 1
                     [st EXCEPT !.matchedWildcard =
                                    isMatchingResolvedName(t, ipTTLs, resolvedName)]
                ELSE IF EqualFold(resolvedName.dnsName, dnsName)
                THEN \* Case 2
                     LET r == addUpdateResolvedNameIPTTLs(index, ipTTLs, order, t, st.names)
                     IN  [st EXCEPT !.matchedWildcard = FALSE,
                                    !.foundResolvedName = TRUE,
                                    !.existingIndex = index,
                                    !.names = r.names,
                                    !.statusUpdated = r.statusUpdated]
                ELSE IF isWildcard(dnsName)
                THEN \* Case 3
                     IF isRegularMatchingWildcardResolvedName(
                            st.foundResolvedName, st.names, resolvedName, ipTTLs, t)
                     THEN [st EXCEPT !.indicesMatchingWildcard = Append(@, index)]
                     ELSE st
                ELSE st
         IN  IF /\ ~isWildcard(dnsName)
                /\ isWildcard(specDNSName)
                /\ st1.foundResolvedName
                /\ index > 0
             THEN st1
             ELSE successWalk(orig, index + 1, st1, specDNSName, dnsName, ipTTLs, order, t)

\* mutant: the new entry is added whether or not the walk found one
finishSuccess_IgnoreFound(st, dnsName, ipTTLs, order, t) ==
    [names |-> addResolvedName(dnsName, t, ipTTLs, order, st.names),
     statusUpdated |-> TRUE]

\* mutant: a name without an entry gets one, matchedWildcard or not
finishSuccess_AddCovered(st, dnsName, ipTTLs, order, t) ==
    LET rm1 == IF isWildcard(dnsName)
               THEN removeResolvedNames(st.indicesMatchingWildcard, st.names)
               ELSE [names |-> st.names, removed |-> FALSE]
        upd1 == st.statusUpdated \/ rm1.removed
    IN  IF ~st.foundResolvedName
        THEN [names |-> addResolvedName(dnsName, t, ipTTLs, order, rm1.names),
              statusUpdated |-> TRUE]
        ELSE [names |-> rm1.names, statusUpdated |-> upd1]

\* the closure after the walk: the removals and the new entry
finishSuccess(st, dnsName, ipTTLs, order, t) ==
    LET rm1 == IF isWildcard(dnsName)
               THEN removeResolvedNames(st.indicesMatchingWildcard, st.names)
               ELSE [names |-> st.names, removed |-> FALSE]
        upd1 == st.statusUpdated \/ rm1.removed
    IN  IF ~isWildcard(dnsName) /\ st.matchedWildcard
        THEN LET indexList == IF st.foundResolvedName THEN <<st.existingIndex>> ELSE <<>>
                 rm2 == removeResolvedNames(indexList, rm1.names)
             IN  [names |-> rm2.names, statusUpdated |-> upd1 \/ rm2.removed]
        ELSE IF ~st.foundResolvedName
        THEN [names |-> addResolvedName(dnsName, t, ipTTLs, order, rm1.names),
              statusUpdated |-> TRUE]
        ELSE [names |-> rm1.names, statusUpdated |-> upd1]

composeSuccess(specDNSName, names, dnsName, ipTTLs, order, t) ==
    LET st0 == [names |-> names,
                existingIndex |-> 0,
                foundResolvedName |-> FALSE,
                matchedWildcard |-> FALSE,
                statusUpdated |-> FALSE,
                indicesMatchingWildcard |-> <<>>]
    IN  finishSuccess(successWalk(names, 0, st0, specDNSName, dnsName, ipTTLs, order, t),
                      dnsName, ipTTLs, order, t)

-----------------------------------------------------------------------------
(* One attempt of the failure update.                                       *)

\* nextLookupTime.After(currentTime)
NotExpired(addr, t) == addr.last + addr.ttl > t

\* mutant: a failure refreshes every address of the entry
failedResolvedName_RefreshAll(entry, t, minTTL, rcode) ==
    [dnsName |-> entry.dnsName,
     addrs |-> [i \in DOMAIN entry.addrs |->
                  [ip |-> entry.addrs[i].ip, ttl |-> minTTL, last |-> t]],
     failures |-> entry.failures + 1,
     conds |-> IF Len(entry.conds) = 0
               THEN <<FailureCondition(rcode)>>
               ELSE [entry.conds EXCEPT ![1] = FailureCondition(rcode)]]

\* the entry after a failure that does not remove it
failedResolvedName(entry, t, minTTL, rcode) ==
    LET addrs == entry.addrs
    IN  [dnsName |-> entry.dnsName,
         addrs |-> [i \in DOMAIN addrs |->
                      IF \/ ~NotExpired(addrs[i], t)
                         \/ isSameNextLookupTime(t, addrs[i].last, addrs[i].ttl, 0)
                      THEN [ip |-> addrs[i].ip, ttl |-> minTTL, last |-> t]
                      ELSE addrs[i]],
         failures |-> entry.failures + 1,
         conds |-> IF Len(entry.conds) = 0
                   THEN <<FailureCondition(rcode)>>
                   ELSE IF \/ entry.conds[1].status # ConditionTrue
                           \/ entry.conds[1].reason # RcodeToString(rcode)
                   THEN [entry.conds EXCEPT ![1] = FailureCondition(rcode)]
                   ELSE entry.conds]

\* mutant: the threshold alone decides the removal
checkAndUpdateResolvedName_ThresholdOnly(index, names, t, threshold, minTTL, rcode) ==
    IF names[index + 1].failures >= threshold
    THEN [names |-> names, removeResolvedName |-> TRUE, statusUpdated |-> FALSE]
    ELSE [names |-> [names EXCEPT ![index + 1] =
                        failedResolvedName(names[index + 1], t, minTTL, rcode)],
          removeResolvedName |-> FALSE, statusUpdated |-> TRUE]

checkAndUpdateResolvedName(index, names, t, threshold, minTTL, rcode) ==
    LET entry == names[index + 1]
        removeResolvedName ==
            /\ entry.failures >= threshold
            /\ \A i \in DOMAIN entry.addrs : ~NotExpired(entry.addrs[i], t)
    IN  IF removeResolvedName
        THEN [names |-> names, removeResolvedName |-> TRUE, statusUpdated |-> FALSE]
        ELSE [names |-> [names EXCEPT ![index + 1] = failedResolvedName(entry, t, minTTL, rcode)],
              removeResolvedName |-> FALSE, statusUpdated |-> TRUE]

\* mutant: a failure for a name without an entry records the failure
composeFailure_CreateEntry(names, dnsName, rcode, t, threshold, minTTL) ==
    LET hits == {i \in DOMAIN names : EqualFold(names[i].dnsName, dnsName)}
    IN  IF hits = {}
        THEN [names |-> Append(names, [dnsName |-> dnsName, addrs |-> <<>>,
                                       failures |-> 1,
                                       conds |-> <<FailureCondition(rcode)>>]),
              statusUpdated |-> TRUE]
        ELSE LET existingIndex == (CHOOSE i \in hits : \A j \in hits : i <= j) - 1
                 r == checkAndUpdateResolvedName(existingIndex, names, t, threshold, minTTL, rcode)
             IN  IF r.removeResolvedName
                 THEN [names |-> SubSeq(r.names, 1, existingIndex)
                                   \o SubSeq(r.names, existingIndex + 2, Len(r.names)),
                       statusUpdated |-> TRUE]
                 ELSE [names |-> r.names, statusUpdated |-> r.statusUpdated]

composeFailure(names, dnsName, rcode, t, threshold, minTTL) ==
    LET hits == {i \in DOMAIN names : EqualFold(names[i].dnsName, dnsName)}
    IN  IF hits = {}
        THEN [names |-> names, statusUpdated |-> FALSE]
        ELSE LET existingIndex == (CHOOSE i \in hits : \A j \in hits : i <= j) - 1
                 r == checkAndUpdateResolvedName(existingIndex, names, t, threshold, minTTL, rcode)
             IN  IF r.removeResolvedName
                 THEN [names |-> SubSeq(r.names, 1, existingIndex)
                                   \o SubSeq(r.names, existingIndex + 2, Len(r.names)),
                       statusUpdated |-> TRUE]
                 ELSE [names |-> r.names, statusUpdated |-> r.statusUpdated]

-----------------------------------------------------------------------------
(* The answer parsing of ServeDNS.  A resource record of the answer section *)
(* is [rrtype, ip, ttl, ttlHigh]: the uint32 header TTL is                  *)
(* ttlHigh * 2^31 + ttl, with ttl its low 31 bits and ttlHigh its top bit.  *)

TypeA == "A"

TypeAAAA == "AAAA"

TypeCNAME == "CNAME"

MaxInt32 == 2147483647

\* int32(rec.Hdr.Ttl): a header TTL with the top bit set wraps to
\* ttl - 2^31
int32OfTTL(rr) == IF rr.ttlHigh THEN (rr.ttl - MaxInt32) - 1 ELSE rr.ttl

\* the ttl recorded for one record
recordTTL(rr, minTTL) ==
    LET ttl == int32OfTTL(rr)
    IN  IF ttl = 0 THEN minTTL ELSE ttl

\* mutant: the switch has no default branch, A records are taken for every
\* query type
parseAnswer_NoDefault(qtype, answer, minTTL) ==
    LET taken == {i \in DOMAIN answer : answer[i].rrtype = TypeA}
        lastPos(ip) == CHOOSE i \in taken :
                          /\ answer[i].ip = ip
                          /\ \A j \in taken : answer[j].ip = ip => j <= i
    IN  [early |-> FALSE,
         ipTTLs |-> [ip \in {answer[i].ip : i \in taken} |->
                       recordTTL(answer[lastPos(ip)], minTTL)]]

\* the loop over rw.Msg.Answer: early is the "default: return status, err"
\* branch, ipTTLs the map built otherwise
parseAnswer(qtype, answer, minTTL) ==
    LET taken == {i \in DOMAIN answer : answer[i].rrtype = qtype}
        \* a later record with the same IP overwrites an earlier one
        lastPos(ip) == CHOOSE i \in taken :
                          /\ answer[i].ip = ip
                          /\ \A j \in taken : answer[j].ip = ip => j <= i
    IN  IF qtype \notin {TypeA, TypeAAAA}
        THEN [early |-> Len(answer) > 0, ipTTLs |-> <<>>]
        ELSE [early |-> FALSE,
              ipTTLs |-> [ip \in {answer[i].ip : i \in taken} |->
                            recordTTL(answer[lastPos(ip)], minTTL)]]

-----------------------------------------------------------------------------
(* SpecUpd: one DNSNameResolver object, lookups applied one after another   *)
(* (lister in sync, no concurrent writer), the clock advancing in between.  *)

UpdIPs == <<"1.1.1.1", "1.1.1.2">>

UpdTTLs == {12}

\* the clock advances in steps just over the equivalence margin
UpdTicks == {TickStep}

UpdRcodes == {RcodeServerFailure, RcodeNameError}

\* the A answers: the first k IPs of UpdIPs (k >= 1), one TTL for the RRset
UpdAnswers ==
    {[i \in 1..k |-> [rrtype |-> TypeA, ip |-> UpdIPs[i], ttl |-> ttl, ttlHigh |-> FALSE]] :
        k \in 1..Len(UpdIPs), ttl \in UpdTTLs}

\* the query names for which ServeDNS finds an object with spec.name = spec
UpdQueries(spec) ==
    IF isWildcard(spec)
    THEN {q \in {WildcardName, WwwName, SubName} : getWildcard(q) = spec}
    ELSE {spec}

\* resolutionFailures of the entry of dnsName in names, 0 when there is none
failuresOf(names, dnsName) ==
    LET hits == {i \in DOMAIN names : names[i].dnsName = dnsName}
    IN  IF hits = {} THEN 0 ELSE names[CHOOSE i \in hits : TRUE].failures

NoOp == [kind |-> "none", q |-> <<>>, ipTTLs |-> <<>>, rcode |-> RcodeSuccess,
         failuresBefore |-> 0, rpc |-> FALSE]

NoEvent == [kind |-> "none", ns |-> "", name |-> "", spec |-> <<>>, ok |-> TRUE]

\* no informer event: the variables of SpecIndex when it is not run
NoInformer ==
    /\ objects = <<>>
    /\ lastEvent = NoEvent

\* defaultMaxTTL, as armed by Start before the first signal
Minute == 60000

IdleCaller ==
    [pc |-> "idle", kind |-> "none", objName |-> "", dnsName |-> <<>>,
     matchesRegular |-> FALSE, numAddrs |-> 0, existed |-> FALSE, applied |-> FALSE, t |-> 0,
     before |-> <<>>, owned |-> {}, list |-> <<>>, sent |-> <<>>]

IdleTimerLoop ==
    [pc |-> "select", nextDNSName |-> <<>>, numIPs |-> 0, exists |-> FALSE,
     timeTillNextLookup |-> 30 * Minute, deadline |-> 30 * Minute, lookup |-> <<>>]

\* lookupDNSName is not running: the variable of SpecLookup when it is not run
IdleLookup ==
    [pc |-> "idle", numIPs |-> 0, listErr |-> FALSE, epList |-> <<>>,
     numCoreDNSPodIPs |-> 0, ips |-> <<>>, randomIPs |-> <<>>, i |-> 0,
     sent |-> <<>>, failed |-> FALSE, err |-> "none"]

NoLookup == podLookup = IdleLookup

\* initPlugin: the variables of SpecShutdown when it is not run
NoShut ==
    /\ stopLock = "none"
    /\ shutdown = FALSE
    /\ stopCh = 0
    /\ onShut = <<>>

\* the reconciler as New builds it: the variables of SpecCRD when it is not run
NoCRD ==
    /\ reconcilers = <<>>
    /\ startCaches = "new"
    /\ startControllers = "new"
    /\ dependentCaches = <<>>
    /\ dependentControllers = <<>>

\* no handler and no request running: the variables of SpecRace when it is
\* not run
NoRace ==
    /\ regularMapLock = "none"
    /\ wildcardMapLock = "none"
    /\ informer = <<>>
    /\ serve = <<>>

NoMore ==
    /\ NoLookup
    /\ NoShut
    /\ NoCRD
    /\ NoRace

\* NewResolver and Start: the variables of SpecSched when it is not run
NoSched ==
    /\ dnsNames = <<>>
    /\ regularObjInfo = <<>>
    /\ wildcardObjInfo = <<>>
    /\ added = 0
    /\ deleted = <<>>
    /\ dnsLock = "none"
    /\ caller = IdleCaller
    /\ timerLoop = IdleTimerLoop

\* no name index and no request: the variables of SpecServe when it is not run
NoServe ==
    /\ regularDNSInfo = <<>>
    /\ wildcardDNSInfo = <<>>
    /\ crs = <<>>
    /\ req = <<>>
    /\ hit = <<>>
    /\ crPc = <<>>
    /\ reads = {}
    /\ writes = {}

UpdInit ==
    /\ specName \in {WildcardName, WwwName}
    /\ status = <<>>
    /\ now = 0
    /\ lastOp = NoOp
    /\ nOps = 0
    /\ resourceVersion = 1
    /\ lister = [rv |-> 1, names |-> <<>>]
    /\ events = <<>>
    /\ loops = <<>>
    /\ NoServe
    /\ NoInformer
    /\ NoSched
    /\ NoMore

UpdSuccess ==
    \E q \in UpdQueries(specName), answer \in UpdAnswers :
        LET p == parseAnswer(TypeA, answer, minimumTTL)
        IN  \E order \in MapOrders(DOMAIN p.ipTTLs) :
                LET r == composeSuccess(specName, status, q, p.ipTTLs, order, now)
                IN  /\ nOps < MaxOps
                    /\ nOps' = nOps + 1
                    /\ status' = IF r.statusUpdated THEN r.names ELSE status
                    /\ lastOp' = [kind |-> "success", q |-> q, ipTTLs |-> p.ipTTLs,
                                  rcode |-> RcodeSuccess,
                                  failuresBefore |-> failuresOf(status, q),
                                  rpc |-> r.statusUpdated]
                    /\ UNCHANGED <<specName, now>>
                    /\ UNCHANGED <<retryVars, serveVars>>
                    /\ UNCHANGED idleVars

UpdFailure ==
    \E q \in UpdQueries(specName), rcode \in UpdRcodes :
        LET r == composeFailure(status, q, rcode, now, failureThreshold, minimumTTL)
        IN  /\ nOps < MaxOps
            /\ nOps' = nOps + 1
            /\ status' = IF r.statusUpdated THEN r.names ELSE status
            /\ lastOp' = [kind |-> "failure", q |-> q, ipTTLs |-> <<>>,
                          rcode |-> rcode,
                          failuresBefore |-> failuresOf(status, q),
                          rpc |-> r.statusUpdated]
            /\ UNCHANGED <<specName, now>>
            /\ UNCHANGED <<retryVars, serveVars>>
            /\ UNCHANGED idleVars

UpdTick ==
    \E d \in UpdTicks :
        /\ now + d <= MaxTime
        /\ now' = now + d
        /\ lastOp' = NoOp
        /\ UNCHANGED <<specName, status, nOps>>
        /\ UNCHANGED <<retryVars, serveVars>>
        /\ UNCHANGED idleVars

UpdNext == UpdSuccess \/ UpdFailure \/ UpdTick

SpecUpd == UpdInit /\ [][UpdNext]_vars

-----------------------------------------------------------------------------
(* SpecRetry: the update goroutines of one DNSNameResolver object.  Each    *)
(* runs retry.RetryOnConflict around the closure of                         *)
(* updateResolvedNamesSuccess / updateResolvedNamesFailure: read the object *)
(* from the lister, or live when the lister still shows the version of the  *)
(* previous attempt, compose the new status, call UpdateStatus.  The API    *)
(* server rejects an UpdateStatus whose resourceVersion is not the stored   *)
(* one; the informer cache follows the store through watch events.          *)

\* the update goroutines that run concurrently (two lookups of the name,
\* by one resolver or by two replicas)
LoopIds == {"g1", "g2"}

\* retry.DefaultRetry.Steps
RetrySteps == 5

RetryRcodes == {RcodeServerFailure}

\* the names looked up while the loops run
RetryQueries(spec) == UpdQueries(spec) \ {SubName}

IdleLoop ==
    [pc |-> "idle", kind |-> "none", q |-> <<>>, ipTTLs |-> <<>>, rcode |-> RcodeSuccess,
     attempts |-> 0, previousResourceVersion |-> 0,
     obj |-> [rv |-> 0, names |-> <<>>], conflicts |-> {}, result |-> "none"]

\* the goroutine after retry.RetryOnConflict returned: what it was started
\* with, the attempts it made and how it ended
DoneLoop(l, result) ==
    [IdleLoop EXCEPT !.pc = "done", !.kind = l.kind, !.q = l.q, !.ipTTLs = l.ipTTLs,
                     !.rcode = l.rcode, !.attempts = l.attempts,
                     !.conflicts = l.conflicts, !.result = result]

RetryInit ==
    /\ specName \in {WildcardName, WwwName}
    /\ status = <<>>
    /\ now = 0
    /\ lastOp = NoOp
    /\ nOps = 0
    /\ resourceVersion = 1
    /\ lister = [rv |-> 1, names |-> <<>>]
    /\ events = <<>>
    /\ loops = [g \in LoopIds |-> IdleLoop]
    /\ NoServe
    /\ NoInformer
    /\ NoSched
    /\ NoMore

\* ServeDNS starts the goroutine of a success update for the object
RetryStartSuccess(g) ==
    \E q \in RetryQueries(specName), answer \in UpdAnswers :
        /\ loops[g].pc \in {"idle", "done"}
        /\ nOps < MaxLoops
        /\ nOps' = nOps + 1
        /\ loops' = [loops EXCEPT ![g] =
                        [IdleLoop EXCEPT !.pc = "lister", !.kind = "success", !.q = q,
                            !.ipTTLs = parseAnswer(TypeA, answer, minimumTTL).ipTTLs]]
        /\ UNCHANGED <<specName, status, now, lastOp, resourceVersion, lister, events>>
        /\ UNCHANGED serveVars
        /\ UNCHANGED idleVars

\* ServeDNS starts the goroutine of a failure update for the object
RetryStartFailure(g) ==
    \E q \in RetryQueries(specName), rcode \in RetryRcodes :
        /\ loops[g].pc \in {"idle", "done"}
        /\ nOps < MaxLoops
        /\ nOps' = nOps + 1
        /\ loops' = [loops EXCEPT ![g] =
                        [IdleLoop EXCEPT !.pc = "lister", !.kind = "failure", !.q = q,
                            !.rcode = rcode]]
        /\ UNCHANGED <<specName, status, now, lastOp, resourceVersion, lister, events>>
        /\ UNCHANGED serveVars
        /\ UNCHANGED idleVars

\* mutant: the version of the object read is not remembered
composeAttempt_NoPrevious(l, obj, order, t) ==
    LET r == IF l.kind = "success"
             THEN composeSuccess(specName, obj.names, l.q, l.ipTTLs, order, t)
             ELSE composeFailure(obj.names, l.q, l.rcode, t, failureThreshold, minimumTTL)
    IN  IF r.statusUpdated
        THEN [l EXCEPT !.pc = "update",
                       !.obj = [rv |-> obj.rv, names |-> r.names]]
        ELSE DoneLoop(l, "skipped")

\* the closure from "previousResourceVersion = resourceVersion" to the
\* decision to skip or to call UpdateStatus, on the object read
composeAttempt(l, obj, order, t) ==
    LET r == IF l.kind = "success"
             THEN composeSuccess(specName, obj.names, l.q, l.ipTTLs, order, t)
             ELSE composeFailure(obj.names, l.q, l.rcode, t, failureThreshold, minimumTTL)
    IN  IF r.statusUpdated
        THEN [l EXCEPT !.pc = "update",
                       !.previousResourceVersion = obj.rv,
                       !.obj = [rv |-> obj.rv, names |-> r.names]]
        ELSE DoneLoop(l, "skipped")

\* one attempt begins: the lister read
RetryListerGet(g) ==
    LET l == [loops[g] EXCEPT !.attempts = @ + 1]
    IN  /\ loops[g].pc = "lister"
        /\ \E err \in BOOLEAN :
              IF err
              THEN loops' = [loops EXCEPT ![g] = DoneLoop(l, "error")]
              ELSE IF lister.rv = l.previousResourceVersion
              THEN loops' = [loops EXCEPT ![g] = [l EXCEPT !.pc = "get"]]
              ELSE \E order \in MapOrders(DOMAIN l.ipTTLs) :
                      loops' = [loops EXCEPT ![g] = composeAttempt(l, lister, order, now)]
        /\ UNCHANGED <<specName, status, now, lastOp, nOps, resourceVersion, lister, events>>
        /\ UNCHANGED serveVars
        /\ UNCHANGED idleVars

\* the lister was stale: the live Get
RetryLiveGet(g) ==
    LET l == loops[g]
    IN  /\ l.pc = "get"
        /\ \E err \in BOOLEAN :
              IF err
              THEN loops' = [loops EXCEPT ![g] = DoneLoop(l, "error")]
              ELSE \E order \in MapOrders(DOMAIN l.ipTTLs) :
                      loops' = [loops EXCEPT ![g] =
                          composeAttempt(l, [rv |-> resourceVersion, names |-> status], order, now)]
        /\ UNCHANGED <<specName, status, now, lastOp, nOps, resourceVersion, lister, events>>
        /\ UNCHANGED serveVars
        /\ UNCHANGED idleVars

\* mutant: a conflict ends the loop as if the update had been stored
afterConflict_Dropped(l) == DoneLoop(l, "updated")

\* mutant: a conflict is retried without a bound on the attempts
afterConflict_Unbounded(l) ==
    [l EXCEPT !.pc = "lister", !.conflicts = @ \cup {l.obj.rv}]

\* retry.RetryOnConflict after the closure returned a conflict: another
\* attempt while steps remain, otherwise the conflict is returned; conflicts
\* records the resourceVersions of the objects that were rejected
afterConflict(l) ==
    LET c == [l EXCEPT !.conflicts = @ \cup {l.obj.rv}]
    IN  IF l.attempts < RetrySteps
        THEN [c EXCEPT !.pc = "lister"]
        ELSE DoneLoop(c, "conflict")

\* UpdateStatus: accepted, rejected with a conflict (the loop retries while
\* steps remain), or failed with another error
RetryUpdateStatus(g) ==
    LET l == loops[g]
    IN  /\ l.pc = "update"
        /\ \E err \in BOOLEAN :
              IF err
              THEN /\ loops' = [loops EXCEPT ![g] = DoneLoop(l, "error")]
                   /\ UNCHANGED <<status, resourceVersion, events>>
              ELSE IF l.obj.rv = resourceVersion
              THEN /\ status' = l.obj.names
                   /\ resourceVersion' = resourceVersion + 1
                   /\ events' = Append(events, [rv |-> resourceVersion + 1, names |-> l.obj.names])
                   /\ loops' = [loops EXCEPT ![g] = DoneLoop(l, "updated")]
              ELSE /\ loops' = [loops EXCEPT ![g] = afterConflict(l)]
                   /\ UNCHANGED <<status, resourceVersion, events>>
        /\ UNCHANGED <<specName, now, lastOp, nOps, lister>>
        /\ UNCHANGED serveVars
        /\ UNCHANGED idleVars

\* the informer applies the next watch event to its cache
RetryListerSync ==
    /\ Len(events) > 0
    /\ lister' = Head(events)
    /\ events' = Tail(events)
    /\ UNCHANGED <<specName, status, now, lastOp, nOps, resourceVersion, loops>>
    /\ UNCHANGED serveVars
    /\ UNCHANGED idleVars

\* another client writes the object (metadata or spec), which changes its
\* resourceVersion and leaves status.resolvedNames as it is
RetryOtherWrite ==
    /\ resourceVersion < MaxOtherVersion
    /\ resourceVersion' = resourceVersion + 1
    /\ events' = Append(events, [rv |-> resourceVersion + 1, names |-> status])
    /\ UNCHANGED <<specName, status, now, lastOp, nOps, lister, loops>>
    /\ UNCHANGED serveVars
    /\ UNCHANGED idleVars

RetryNext ==
    \/ \E g \in LoopIds : RetryStartSuccess(g)
    \/ \E g \in LoopIds : RetryStartFailure(g)
    \/ \E g \in LoopIds : RetryListerGet(g)
    \/ \E g \in LoopIds : RetryLiveGet(g)
    \/ \E g \in LoopIds : RetryUpdateStatus(g)
    \/ RetryListerSync
    \/ RetryOtherWrite

SpecRetry == RetryInit /\ [][RetryNext]_vars

(* SpecConflict: the update goroutines against other clients that keep      *)
(* writing the object, so that every attempt of a loop can meet a conflict; *)
(* a goroutine that has been started keeps running until it returns.        *)

\* the update goroutine that is followed
ConflictLoops == {"g1"}

\* another client writes the object
ConflictOtherWrite ==
    /\ resourceVersion < MaxConflictVersion
    /\ resourceVersion' = resourceVersion + 1
    /\ events' = Append(events, [rv |-> resourceVersion + 1, names |-> status])
    /\ UNCHANGED <<specName, status, now, lastOp, nOps, lister, loops>>
    /\ UNCHANGED serveVars
    /\ UNCHANGED idleVars

ConflictNext ==
    \/ \E g \in ConflictLoops : RetryStartSuccess(g)
    \/ \E g \in ConflictLoops : RetryStartFailure(g)
    \/ \E g \in ConflictLoops : RetryListerGet(g)
    \/ \E g \in ConflictLoops : RetryLiveGet(g)
    \/ \E g \in ConflictLoops : RetryUpdateStatus(g)
    \/ RetryListerSync
    \/ ConflictOtherWrite

\* the calls of the lister, of the API server and of the backoff return
ConflictFairness ==
    \A g \in ConflictLoops :
        /\ WF_vars(RetryListerGet(g))
        /\ WF_vars(RetryLiveGet(g))
        /\ WF_vars(RetryUpdateStatus(g))

SpecConflict == RetryInit /\ [][ConflictNext]_vars /\ ConflictFairness

(* SpecLag: one update goroutine of this replica, whose informer cache lags *)
(* behind the store, while another replica of the plugin gets its own       *)
(* status updates of the same object stored and time passes.                *)

\* the answers this replica sees: those of UpdAnswers, and one A record with
\* TTL 0, which ServeDNS replaces by the minimum TTL
LagAnswers ==
    UpdAnswers
    \cup {<<[rrtype |-> TypeA, ip |-> UpdIPs[1], ttl |-> 0, ttlHigh |-> FALSE]>>}

\* the object has a regular spec.name
LagInit ==
    /\ RetryInit
    /\ specName = WwwName

\* the store accepts the status another replica composed from the stored
\* object for a success update with one answered address
LagReplicaSuccess ==
    \E q \in RetryQueries(specName), answer \in {a \in UpdAnswers : Len(a) = 1} :
        LET p == parseAnswer(TypeA, answer, minimumTTL)
        IN  \E order \in MapOrders(DOMAIN p.ipTTLs) :
                LET r == composeSuccess(specName, status, q, p.ipTTLs, order, now)
                IN  /\ nOps < MaxLagOps
                    /\ r.statusUpdated
                    /\ nOps' = nOps + 1
                    /\ status' = r.names
                    /\ resourceVersion' = resourceVersion + 1
                    /\ events' = Append(events, [rv |-> resourceVersion + 1, names |-> r.names])
                    /\ UNCHANGED <<specName, now, lastOp, lister, loops>>
                    /\ UNCHANGED serveVars
                    /\ UNCHANGED idleVars

\* the same for a failure update of the other replica
LagReplicaFailure ==
    \E q \in RetryQueries(specName), rcode \in RetryRcodes :
        LET r == composeFailure(status, q, rcode, now, failureThreshold, minimumTTL)
        IN  /\ nOps < MaxLagOps
            /\ r.statusUpdated
            /\ nOps' = nOps + 1
            /\ status' = r.names
            /\ resourceVersion' = resourceVersion + 1
            /\ events' = Append(events, [rv |-> resourceVersion + 1, names |-> r.names])
            /\ UNCHANGED <<specName, now, lastOp, lister, loops>>
            /\ UNCHANGED serveVars
            /\ UNCHANGED idleVars

\* ServeDNS of this replica starts the goroutine of a success update
LagStartSuccess(g) ==
    \E q \in RetryQueries(specName), answer \in LagAnswers :
        /\ loops[g].pc = "idle"
        /\ loops' = [loops EXCEPT ![g] =
                        [IdleLoop EXCEPT !.pc = "lister", !.kind = "success", !.q = q,
                            !.ipTTLs = parseAnswer(TypeA, answer, minimumTTL).ipTTLs]]
        /\ UNCHANGED <<specName, status, now, lastOp, nOps, resourceVersion, lister, events>>
        /\ UNCHANGED serveVars
        /\ UNCHANGED idleVars

LagNext ==
    \/ LagReplicaSuccess
    \/ LagReplicaFailure
    \/ UpdTick
    \/ RetryListerSync
    \/ \E g \in ConflictLoops : LagStartSuccess(g)
    \/ \E g \in ConflictLoops : RetryListerGet(g)
    \/ \E g \in ConflictLoops : RetryLiveGet(g)
    \/ \E g \in ConflictLoops : RetryUpdateStatus(g)

SpecLag == LagInit /\ [][LagNext]_vars

-----------------------------------------------------------------------------
(* SpecServe: ServeDNS requests, one at a time, against a name index that   *)
(* tracks five DNSNameResolver objects.  ServeDNS looks the name up, calls  *)
(* the next handler through a recorder, parses the recorded answer and      *)
(* starts one goroutine per hit; each starts one update goroutine per       *)
(* namespace and waits for them.  An update goroutine is one step here: its *)
(* retry loop ends with the status stored, with the update skipped, or with *)
(* an error that is logged (the loop itself is SpecRetry).                  *)

OtherName == <<"www", "other", "com">>

OtherWildcardName == <<"*", "other", "com">>

\* the objects: <<namespace, object name>>
CRSet ==
    {<<"ns1", "www">>, <<"ns2", "www">>, <<"ns1", "wild">>,
     <<"ns1", "other">>, <<"ns2", "otherwild">>}

\* spec.name of an object
SpecOf(c) ==
    CASE c[2] = "www" -> WwwName
      [] c[2] = "wild" -> WildcardName
      [] c[2] = "other" -> OtherName
      [] c[2] = "otherwild" -> OtherWildcardName

\* the index the add handler builds from a set of objects: DNS name ->
\* namespace -> object name
indexOf(objs) ==
    [n \in {SpecOf(c) : c \in objs} |->
        [ns \in {c[1] : c \in {d \in objs : SpecOf(d) = n}} |->
            (CHOOSE c \in objs : SpecOf(c) = n /\ c[1] = ns)[2]]]

\* the names queried: a tracked regular name in mixed case, the tracked
\* wildcard, a name no object tracks
ServeQNames == {<<"WWW", "Example", "com">>, WildcardName, <<"mail", "test", "org">>}

ServeQTypes == {TypeA, TypeCNAME}

ARecord(ip, ttl) == [rrtype |-> TypeA, ip |-> ip, ttl |-> ttl, ttlHigh |-> FALSE]

\* an A record whose header TTL is 2^31 + ttl
ARecordHighTTL(ip, ttl) == [rrtype |-> TypeA, ip |-> ip, ttl |-> ttl, ttlHigh |-> TRUE]

CNAMERecord == [rrtype |-> TypeCNAME, ip |-> "", ttl |-> 12, ttlHigh |-> FALSE]

\* what the next handler does: the (rcode, err) it returns and the message it
\* wrote through the recorder, if any (a handler that returns SERVFAIL leaves
\* the reply to the server and writes none)
ServeResults ==
    {[rcode |-> RcodeSuccess, err |-> FALSE, written |-> TRUE,
      answer |-> <<ARecord("1.1.1.1", 12)>>],
     [rcode |-> RcodeSuccess, err |-> FALSE, written |-> TRUE,
      answer |-> <<CNAMERecord, ARecord("1.1.1.1", 12), ARecord("1.1.1.2", 0)>>],
     [rcode |-> RcodeSuccess, err |-> FALSE, written |-> TRUE,
      answer |-> <<ARecordHighTTL("1.1.1.1", MaxInt32)>>],
     [rcode |-> RcodeSuccess, err |-> FALSE, written |-> TRUE, answer |-> <<CNAMERecord>>],
     [rcode |-> RcodeSuccess, err |-> FALSE, written |-> TRUE, answer |-> <<>>],
     [rcode |-> RcodeNameError, err |-> FALSE, written |-> TRUE, answer |-> <<>>],
     [rcode |-> RcodeNameError, err |-> FALSE, written |-> TRUE, answer |-> <<CNAMERecord>>],
     [rcode |-> RcodeServerFailure, err |-> FALSE, written |-> FALSE, answer |-> <<>>],
     [rcode |-> RcodeServerFailure, err |-> TRUE, written |-> FALSE, answer |-> <<>>]}

HitKinds == {"regular", "wildcard"}

NoHit == [exists |-> FALSE, info |-> <<>>]

NoReturn == [kind |-> "none", rcode |-> RcodeSuccess, err |-> FALSE]

IdleReq ==
    [pc |-> "idle", name |-> <<>>, qname |-> <<>>, qtype |-> TypeA,
     regular |-> NoHit, wildcard |-> NoHit,
     rcode |-> RcodeSuccess, err |-> FALSE, written |-> FALSE, answer |-> <<>>,
     update |-> "none", ipTTLs |-> <<>>, ret |-> NoReturn]

\* resolver.regularDNSInfo[qname], for a regular qname
lookupRegular(qname) ==
    IF ~isWildcard(qname) /\ qname \in DOMAIN regularDNSInfo
    THEN [exists |-> TRUE, info |-> regularDNSInfo[qname]]
    ELSE NoHit

\* mutant: the wildcard index is not searched by the name's wildcard
lookupWildcard_AnyKey(qname) ==
    IF DOMAIN wildcardDNSInfo # {}
    THEN [exists |-> TRUE,
          info |-> wildcardDNSInfo[CHOOSE k \in DOMAIN wildcardDNSInfo :
                                      ~isWildcard(qname) => k # getWildcard(qname)]]
    ELSE NoHit

\* resolver.wildcardDNSInfo[qname] for a wildcard qname, and
\* resolver.wildcardDNSInfo[getWildcard(qname)] for a regular one
lookupWildcard(qname) ==
    LET key == IF isWildcard(qname) THEN qname ELSE getWildcard(qname)
    IN  IF key \in DOMAIN wildcardDNSInfo
        THEN [exists |-> TRUE, info |-> wildcardDNSInfo[key]]
        ELSE NoHit

\* the objects of a hit of the request
hitCRs(h) ==
    LET info == IF h = "regular" THEN req.regular.info ELSE req.wildcard.info
    IN  {<<ns, info[ns]>> : ns \in DOMAIN info}

ServeInit ==
    /\ specName = <<>>
    /\ status = <<>>
    /\ now = 0
    /\ lastOp = NoOp
    /\ nOps = 0
    /\ resourceVersion = 1
    /\ lister = [rv |-> 1, names |-> <<>>]
    /\ events = <<>>
    /\ loops = <<>>
    /\ regularDNSInfo = indexOf({c \in CRSet : ~isWildcard(SpecOf(c))})
    /\ wildcardDNSInfo = indexOf({c \in CRSet : isWildcard(SpecOf(c))})
    /\ crs = [c \in CRSet |-> <<>>]
    /\ req = IdleReq
    /\ hit = [h \in HitKinds |-> "none"]
    /\ crPc = [c \in CRSet |-> "none"]
    /\ reads = {}
    /\ writes = {}
    /\ NoInformer
    /\ NoSched
    /\ NoMore

\* ServeDNS is called: the name is lower-cased and looked up in the index
ServeDNSLookup ==
    \E name \in ServeQNames, qtype \in ServeQTypes :
        LET qname == ToLower(name)
            regular == lookupRegular(qname)
            wildcard == lookupWildcard(qname)
        IN  /\ req.pc \in {"idle", "returned", "panicked"}
            /\ nOps < MaxRequests
            /\ nOps' = nOps + 1
            /\ req' = [IdleReq EXCEPT !.pc = IF regular.exists \/ wildcard.exists
                                             THEN "next" ELSE "passthrough",
                                      !.name = name, !.qname = qname, !.qtype = qtype,
                                      !.regular = regular, !.wildcard = wildcard]
            /\ hit' = [h \in HitKinds |-> "none"]
            /\ crPc' = [c \in CRSet |-> "none"]
            /\ reads' = {}
            /\ writes' = {}
            /\ UNCHANGED <<regularDNSInfo, wildcardDNSInfo, crs>>
            /\ UNCHANGED <<specName, status, now, lastOp, retryVars>>
            /\ UNCHANGED idleVars

\* no hit: the result of the next handler is returned as it is
ServeDNSPassThrough ==
    \E res \in ServeResults :
        /\ req.pc = "passthrough"
        /\ req' = [req EXCEPT !.pc = "returned",
                              !.rcode = res.rcode, !.err = res.err,
                              !.written = res.written, !.answer = res.answer,
                              !.ret = [kind |-> "pair", rcode |-> res.rcode, err |-> res.err]]
        /\ UNCHANGED <<regularDNSInfo, wildcardDNSInfo, crs, hit, crPc, reads, writes>>
        /\ UNCHANGED <<specName, status, now, lastOp, nOps, retryVars>>
        /\ UNCHANGED idleVars

\* ServeDNS from the call of the next handler to its return or to the start
\* of the goroutines of the hits
afterNext(r, res) ==
    LET r1 == [r EXCEPT !.rcode = res.rcode, !.err = res.err,
                        !.written = res.written, !.answer = res.answer]
        pair == [kind |-> "pair", rcode |-> res.rcode, err |-> res.err]
        p == parseAnswer(r.qtype, res.answer, minimumTTL)
    IN  IF ~res.written
        THEN \* rw.Msg is nil: rw.Msg.Answer panics
             [r1 EXCEPT !.pc = "panicked", !.ret = [NoReturn EXCEPT !.kind = "panic"]]
        ELSE IF p.early
        THEN [r1 EXCEPT !.pc = "returned", !.ret = pair]
        ELSE IF res.rcode # RcodeSuccess \/ res.err
        THEN [r1 EXCEPT !.pc = "wait", !.update = "failure", !.ipTTLs = p.ipTTLs]
        ELSE IF DOMAIN p.ipTTLs = {}
        THEN [r1 EXCEPT !.pc = "returned", !.ret = pair]
        ELSE [r1 EXCEPT !.pc = "wait", !.update = "success", !.ipTTLs = p.ipTTLs]

ServeDNSNext ==
    \E res \in ServeResults :
        /\ req.pc = "next"
        /\ req' = afterNext(req, res)
        /\ hit' = [h \in HitKinds |->
                      IF req'.pc = "wait" /\ req[h].exists THEN "started" ELSE "none"]
        /\ UNCHANGED <<regularDNSInfo, wildcardDNSInfo, crs, crPc, reads, writes>>
        /\ UNCHANGED <<specName, status, now, lastOp, nOps, retryVars>>
        /\ UNCHANGED idleVars

\* updateResolvedNamesSuccess / updateResolvedNamesFailure of a hit starts
\* one goroutine per namespace
ServeHitFanOut(h) ==
    /\ hit[h] = "started"
    /\ hit' = [hit EXCEPT ![h] = "wait"]
    /\ crPc' = [c \in CRSet |-> IF c \in hitCRs(h) THEN "run" ELSE crPc[c]]
    /\ UNCHANGED <<regularDNSInfo, wildcardDNSInfo, crs, req, reads, writes>>
    /\ UNCHANGED <<specName, status, now, lastOp, nOps, retryVars>>
    /\ UNCHANGED idleVars

\* the update goroutine of one object: its retry loop reads the object and
\* ends with an error, or composes the new status and stores it unless
\* nothing changed
ServeUpdateCR(c) ==
    /\ crPc[c] = "run"
    /\ crPc' = [crPc EXCEPT ![c] = "done"]
    /\ \E failed \in {"read", "update", "no"}, order \in MapOrders(DOMAIN req.ipTTLs) :
          LET r == IF req.update = "success"
                   THEN composeSuccess(SpecOf(c), crs[c], req.qname, req.ipTTLs, order, now)
                   ELSE composeFailure(crs[c], req.qname, req.rcode, now,
                                       failureThreshold, minimumTTL)
          IN  /\ reads' = IF failed = "read" THEN reads ELSE reads \cup {c}
              /\ writes' = IF failed # "read" /\ r.statusUpdated
                           THEN writes \cup {c} ELSE writes
              /\ crs' = IF failed = "no" /\ r.statusUpdated
                        THEN [crs EXCEPT ![c] = r.names] ELSE crs
    /\ UNCHANGED <<regularDNSInfo, wildcardDNSInfo, req, hit>>
    /\ UNCHANGED <<specName, status, now, lastOp, nOps, retryVars>>
    /\ UNCHANGED idleVars

\* wg.Wait() of updateResolvedNamesSuccess / updateResolvedNamesFailure
hitJoined(h) == \A c \in hitCRs(h) : crPc[c] = "done"

ServeHitJoin(h) ==
    /\ hit[h] = "wait"
    /\ hitJoined(h)
    /\ hit' = [hit EXCEPT ![h] = "done"]
    /\ UNCHANGED <<regularDNSInfo, wildcardDNSInfo, crs, req, crPc, reads, writes>>
    /\ UNCHANGED <<specName, status, now, lastOp, nOps, retryVars>>
    /\ UNCHANGED idleVars

\* mutant: ServeDNS returns without waiting for the goroutines of the hits
allHitsJoined_NoWait == TRUE

\* wg.Wait() of ServeDNS
allHitsJoined == \A h \in HitKinds : hit[h] \in {"none", "done"}

ServeDNSReturn ==
    /\ req.pc = "wait"
    /\ allHitsJoined
    /\ req' = [req EXCEPT !.pc = "returned",
                          !.ret = [kind |-> "pair", rcode |-> req.rcode, err |-> req.err]]
    /\ UNCHANGED <<regularDNSInfo, wildcardDNSInfo, crs, hit, crPc, reads, writes>>
    /\ UNCHANGED <<specName, status, now, lastOp, nOps, retryVars>>
    /\ UNCHANGED idleVars

ServeNext ==
    \/ ServeDNSLookup
    \/ ServeDNSPassThrough
    \/ ServeDNSNext
    \/ \E h \in HitKinds : ServeHitFanOut(h)
    \/ \E c \in CRSet : ServeUpdateCR(c)
    \/ \E h \in HitKinds : ServeHitJoin(h)
    \/ ServeDNSReturn

SpecServe == ServeInit /\ [][ServeNext]_vars

-----------------------------------------------------------------------------
(* SpecIndex: the event handlers that initInformer registers.  The informer *)
(* delivers an add event for every object that appears and a delete event   *)
(* for every object that goes away; the handlers keep regularDNSInfo and    *)
(* wildcardDNSInfo.  No handler is registered for update events.            *)

\* the `namespaces` property of the plugin configuration
namespaces == {"ns1", "ns2"}

\* the namespaces objects are created in: ns3 is not configured
IndexNamespaces == {"ns1", "ns2", "ns3"}

IndexObjNames == {"o1", "o2"}

IndexSpecNames == {WwwName, WildcardName}

\* the objects that come and go: two names in each configured namespace, one
\* in the namespace that is not configured
IndexKeys ==
    {<<ns, name>> : ns \in namespaces, name \in IndexObjNames} \cup {<<"ns3", "o1">>}

configuredNamespace(namespace) ==
    ~(Cardinality(namespaces) > 0 /\ namespace \notin namespaces)

\* m[key] = value on a Go map
mapPut(m, key, value) ==
    [k \in DOMAIN m \cup {key} |-> IF k = key THEN value ELSE m[k]]

\* delete(m, key) on a Go map
mapDelete(m, key) == [k \in DOMAIN m \ {key} |-> m[k]]

\* mutant: the add event of a second object takes the mapping over
addDNSInfo_LastWins(info, ns, name, dnsName) ==
    LET dnsInfoMap == IF dnsName \in DOMAIN info THEN info[dnsName] ELSE <<>>
    IN  mapPut(info, dnsName, mapPut(dnsInfoMap, ns, name))

\* the locked section of AddFunc on one of the two maps
addDNSInfo(info, ns, name, dnsName) ==
    LET dnsInfoExists == dnsName \in DOMAIN info
        dnsInfoMap == IF dnsInfoExists THEN info[dnsName] ELSE <<>>
    IN  IF /\ dnsInfoExists
           /\ ns \in DOMAIN dnsInfoMap
           /\ dnsInfoMap[ns] # name
        THEN info
        ELSE mapPut(info, dnsName, mapPut(dnsInfoMap, ns, name))

\* mutant: the namespace is deleted, the emptied namespace map is stored back
deleteDNSInfo_NoCompaction(info, ns, name, dnsName) ==
    IF /\ dnsName \in DOMAIN info
       /\ ns \in DOMAIN info[dnsName]
       /\ info[dnsName][ns] = name
    THEN mapPut(info, dnsName, mapDelete(info[dnsName], ns))
    ELSE info

\* the locked section of DeleteFunc on one of the two maps (a missing
\* namespace key reads as "", which is no object's name)
deleteDNSInfo(info, ns, name, dnsName) ==
    IF /\ dnsName \in DOMAIN info
       /\ ns \in DOMAIN info[dnsName]
       /\ info[dnsName][ns] = name
    THEN LET dnsInfoMap == mapDelete(info[dnsName], ns)
         IN  IF Cardinality(DOMAIN dnsInfoMap) > 0
             THEN mapPut(info, dnsName, dnsInfoMap)
             ELSE mapDelete(info, dnsName)
    ELSE info

IndexInit ==
    /\ specName = <<>>
    /\ status = <<>>
    /\ now = 0
    /\ lastOp = NoOp
    /\ nOps = 0
    /\ resourceVersion = 1
    /\ lister = [rv |-> 1, names |-> <<>>]
    /\ events = <<>>
    /\ loops = <<>>
    /\ NoServe
    /\ NoInformer
    /\ NoSched
    /\ NoMore

\* an object is created and its add event is handled
AddFunc ==
    \E ns \in IndexNamespaces, name \in IndexObjNames, dnsName \in IndexSpecNames :
        /\ <<ns, name>> \in IndexKeys \ DOMAIN objects
        /\ objects' = mapPut(objects, <<ns, name>>, dnsName)
        /\ lastEvent' = [kind |-> "add", ns |-> ns, name |-> name, spec |-> dnsName,
                         ok |-> TRUE]
        /\ IF ~configuredNamespace(ns)
           THEN UNCHANGED <<regularDNSInfo, wildcardDNSInfo>>
           ELSE IF isWildcard(dnsName)
           THEN /\ wildcardDNSInfo' = addDNSInfo(wildcardDNSInfo, ns, name, dnsName)
                /\ UNCHANGED regularDNSInfo
           ELSE /\ regularDNSInfo' = addDNSInfo(regularDNSInfo, ns, name, dnsName)
                /\ UNCHANGED wildcardDNSInfo
        /\ UNCHANGED <<crs, req, hit, crPc, reads, writes>>
        /\ UNCHANGED <<updVars, retryVars, schedVars, moreVars>>

\* an object is deleted and its delete event is handled; ok is false when the
\* informer missed the deletion and hands over a tombstone
\* (cache.DeletedFinalStateUnknown), which fails the type assertion
DeleteFunc ==
    \E key \in DOMAIN objects, ok \in BOOLEAN :
        LET ns == key[1]
            name == key[2]
            dnsName == objects[key]
        IN  /\ objects' = mapDelete(objects, key)
            /\ lastEvent' = [kind |-> "delete", ns |-> ns, name |-> name,
                             spec |-> dnsName, ok |-> ok]
            /\ IF ~ok \/ ~configuredNamespace(ns)
               THEN UNCHANGED <<regularDNSInfo, wildcardDNSInfo>>
               ELSE IF isWildcard(dnsName)
               THEN /\ wildcardDNSInfo' = deleteDNSInfo(wildcardDNSInfo, ns, name, dnsName)
                    /\ UNCHANGED regularDNSInfo
               ELSE /\ regularDNSInfo' = deleteDNSInfo(regularDNSInfo, ns, name, dnsName)
                    /\ UNCHANGED wildcardDNSInfo
            /\ UNCHANGED <<crs, req, hit, crPc, reads, writes>>
            /\ UNCHANGED <<updVars, retryVars, schedVars, moreVars>>

IndexNext == AddFunc \/ DeleteFunc

SpecIndex == IndexInit /\ [][IndexNext]_vars

-----------------------------------------------------------------------------
(* SpecSched: the Resolver of the operator.  One goroutine calls Add and    *)
(* Delete (the reconciler); Start's goroutine waits on the added channel,   *)
(* the deleted channel and the timer.  Both channels have capacity 1, and   *)
(* Add and Delete send while they hold dnsLock.  Times and durations are in *)
(* milliseconds.                                                            *)

Millisecond == 1

Second == 1000

defaultMaxTTL == 30 * Minute

defaultMinTTL == 5 * Second

\* the clock advances in steps of SchedTickStep
SchedTickStep == 10 * Second

SchedNames == {WwwName, SubName}

\* the calls of Add the reconciler makes, one per entry of an object's
\* status: the entry of a regular object carries matchesRegular = true, the
\* entries of a wildcard object matchesRegular = false.  Object "regular" is
\* seen under either name, "regular2" competes with it for one name, and
\* "wildcard" covers both names.
SchedAddCalls ==
    {[objName |-> "regular", matchesRegular |-> TRUE, dnsName |-> d] : d \in SchedNames}
    \cup {[objName |-> "regular2", matchesRegular |-> TRUE, dnsName |-> WwwName]}
    \cup {[objName |-> "wildcard", matchesRegular |-> FALSE, dnsName |-> d] :
            d \in SchedNames}

SchedObjNames == {c.objName : c \in SchedAddCalls}

\* the resolvedAddresses of a status entry read at time t: none; two, the
\* second due first; one that has expired; one with a TTL beyond
\* defaultMaxTTL
SchedAddresses(t) ==
    {<<>>,
     <<[ip |-> "1.1.1.2", ttl |-> 10, last |-> t], [ip |-> "1.1.1.3", ttl |-> 8, last |-> t]>>,
     <<[ip |-> "1.1.1.1", ttl |-> 5, last |-> t - 10 * Second]>>,
     <<[ip |-> "1.1.1.1", ttl |-> 3600, last |-> t]>>}

\* the loop of Add over resolvedAddresses
RECURSIVE minNextLookupTimeLoop(_, _, _, _)
minNextLookupTimeLoop(resolvedAddresses, i, first, minNextLookupTime) ==
    IF i > Len(resolvedAddresses)
    THEN minNextLookupTime
    ELSE LET next == resolvedAddresses[i].last + Second * resolvedAddresses[i].ttl
         IN  IF ~first \/ next < minNextLookupTime
             THEN minNextLookupTimeLoop(resolvedAddresses, i + 1, TRUE, next)
             ELSE minNextLookupTimeLoop(resolvedAddresses, i + 1, first, minNextLookupTime)

\* the zero value of dnsResolvedName; its zero time is overwritten before
\* the entry is stored
ZeroResolvedName ==
    [minNextLookupTime |-> 0, regularObjExists |-> FALSE,
     wildcardObjExists |-> FALSE, numIPs |-> 0]

\* Add returns early: the entry is owned, for this kind of object, by
\* another object
addRejected(names, regInfo, wildInfo, dnsName, matchesRegular, objName) ==
    /\ dnsName \in DOMAIN names
    /\ IF names[dnsName].regularObjExists /\ matchesRegular
       THEN ~(objName \in DOMAIN regInfo /\ regInfo[objName] = dnsName)
       ELSE IF names[dnsName].wildcardObjExists /\ ~matchesRegular
       THEN ~(objName \in DOMAIN wildInfo /\ dnsName \in wildInfo[objName])
       ELSE FALSE

\* mutant: Add leaves wildcardObjExists as it was
addedResolvedName_NoWildcardFlag(names, dnsName, resolvedAddresses, matchesRegular, t) ==
    LET exists == dnsName \in DOMAIN names
        resolvedName == IF exists THEN names[dnsName] ELSE ZeroResolvedName
    IN  [minNextLookupTime |->
            IF Len(resolvedAddresses) = 0
            THEN IF ~exists
                 THEN t + defaultMaxTTL
                 ELSE resolvedName.minNextLookupTime
            ELSE minNextLookupTimeLoop(resolvedAddresses, 1, FALSE,
                                       resolvedName.minNextLookupTime),
         regularObjExists |-> resolvedName.regularObjExists \/ matchesRegular,
         wildcardObjExists |-> resolvedName.wildcardObjExists,
         numIPs |-> Len(resolvedAddresses)]

\* the dnsResolvedName Add stores for dnsName at time t
addedResolvedName(names, dnsName, resolvedAddresses, matchesRegular, t) ==
    LET exists == dnsName \in DOMAIN names
        resolvedName == IF exists THEN names[dnsName] ELSE ZeroResolvedName
    IN  [minNextLookupTime |->
            IF Len(resolvedAddresses) = 0
            THEN IF ~exists
                 THEN t + defaultMaxTTL
                 ELSE resolvedName.minNextLookupTime
            ELSE minNextLookupTimeLoop(resolvedAddresses, 1, FALSE,
                                       resolvedName.minNextLookupTime),
         regularObjExists |-> resolvedName.regularObjExists \/ matchesRegular,
         wildcardObjExists |-> resolvedName.wildcardObjExists \/ ~matchesRegular,
         numIPs |-> Len(resolvedAddresses)]

\* mutant: Delete clears regularObjExists whatever the kind of the object
clearedResolvedName_AlwaysRegular(resolvedName, matchesRegular) ==
    [resolvedName EXCEPT !.regularObjExists = FALSE]

\* the entry of dnsName after Delete cleared the flag of the deleted object
clearedResolvedName(resolvedName, matchesRegular) ==
    IF matchesRegular
    THEN [resolvedName EXCEPT !.regularObjExists = FALSE]
    ELSE [resolvedName EXCEPT !.wildcardObjExists = FALSE]

getNextDNSNameDetails_First(names) ==
    IF DOMAIN names = {}
    THEN {[dns |-> <<>>, minNextLookupTime |-> 0, numIPs |-> 0, exists |-> FALSE]}
    ELSE {[dns |-> d, minNextLookupTime |-> names[d].minNextLookupTime,
           numIPs |-> names[d].numIPs, exists |-> TRUE] : d \in DOMAIN names}

\* the results getNextDNSNameDetails can return: the range over the map
\* keeps the first entry it meets among those with the least time
getNextDNSNameDetails(names) ==
    IF DOMAIN names = {}
    THEN {[dns |-> <<>>, minNextLookupTime |-> 0, numIPs |-> 0, exists |-> FALSE]}
    ELSE {[dns |-> d, minNextLookupTime |-> names[d].minNextLookupTime,
           numIPs |-> names[d].numIPs, exists |-> TRUE] :
            d \in {e \in DOMAIN names :
                     \A f \in DOMAIN names :
                         names[e].minNextLookupTime <= names[f].minNextLookupTime}}

\* the period Start arms the timer with
timeTillNextLookupOf(exists, remainingDuration) ==
    IF ~exists \/ remainingDuration > defaultMaxTTL
    THEN defaultMaxTTL
    ELSE IF remainingDuration > 0
    THEN remainingDuration
    ELSE 1 * Millisecond

SchedInit ==
    /\ specName = <<>>
    /\ status = <<>>
    /\ now = 0
    /\ lastOp = NoOp
    /\ nOps = 0
    /\ resourceVersion = 1
    /\ lister = [rv |-> 1, names |-> <<>>]
    /\ events = <<>>
    /\ loops = <<>>
    /\ NoServe
    /\ NoInformer
    /\ NoSched
    /\ NoMore

\* Resolver.Add, up to its return or to the send on a full added channel
Add ==
    \E c \in SchedAddCalls, resolvedAddresses \in SchedAddresses(now) :
        LET rejected == addRejected(dnsNames, regularObjInfo, wildcardObjInfo,
                                    c.dnsName, c.matchesRegular, c.objName)
            call == [IdleCaller EXCEPT !.kind = "add", !.objName = c.objName,
                                       !.dnsName = c.dnsName,
                                       !.matchesRegular = c.matchesRegular,
                                       !.numAddrs = Len(resolvedAddresses),
                                       !.existed = c.dnsName \in DOMAIN dnsNames,
                                       !.applied = ~rejected,
                                       !.t = now]
        IN  /\ caller.pc = "idle"
            /\ dnsLock = "none"
            /\ nOps < MaxCalls
            /\ nOps' = nOps + 1
            /\ IF rejected
               THEN /\ caller' = call
                    /\ UNCHANGED <<dnsNames, regularObjInfo, wildcardObjInfo, added, dnsLock>>
               ELSE /\ dnsNames' = mapPut(dnsNames, c.dnsName,
                                          addedResolvedName(dnsNames, c.dnsName, resolvedAddresses,
                                                            c.matchesRegular, now))
                    /\ regularObjInfo' = IF c.matchesRegular
                                         THEN mapPut(regularObjInfo, c.objName, c.dnsName)
                                         ELSE regularObjInfo
                    /\ wildcardObjInfo' =
                          IF c.matchesRegular
                          THEN wildcardObjInfo
                          ELSE mapPut(wildcardObjInfo, c.objName,
                                      (IF c.objName \in DOMAIN wildcardObjInfo
                                       THEN wildcardObjInfo[c.objName] ELSE {})
                                         \cup {c.dnsName})
                    /\ IF added = 0
                       THEN /\ added' = 1
                            /\ caller' = call
                            /\ UNCHANGED dnsLock
                       ELSE /\ caller' = [call EXCEPT !.pc = "addSend"]
                            /\ dnsLock' = "caller"
                            /\ UNCHANGED added
            /\ UNCHANGED <<deleted, timerLoop>>
            /\ UNCHANGED <<specName, status, now, lastOp, retryVars, serveVars, informerVars, moreVars>>

\* the send of Add goes through once the added channel has room
AddSend ==
    /\ caller.pc = "addSend"
    /\ added = 0
    /\ added' = 1
    /\ dnsLock' = "none"
    /\ caller' = [caller EXCEPT !.pc = "idle"]
    /\ UNCHANGED <<dnsNames, regularObjInfo, wildcardObjInfo, deleted, timerLoop>>
    /\ UNCHANGED <<updVars, retryVars, serveVars, informerVars, moreVars>>

\* Resolver.Delete, up to the loop over dnsNameList
Delete ==
    \E objName \in SchedObjNames :
        LET regularExists == objName \in DOMAIN regularObjInfo
            wildcardExists == objName \in DOMAIN wildcardObjInfo
            owned == IF regularExists THEN {regularObjInfo[objName]}
                     ELSE IF wildcardExists THEN wildcardObjInfo[objName]
                     ELSE {}
            call == [IdleCaller EXCEPT !.kind = "delete", !.objName = objName,
                                       !.t = now, !.before = dnsNames, !.owned = owned,
                                       !.applied = regularExists \/ wildcardExists,
                                       !.matchesRegular = regularExists]
        IN  /\ caller.pc = "idle"
            /\ dnsLock = "none"
            /\ nOps < MaxCalls
            /\ nOps' = nOps + 1
            /\ IF regularExists
               THEN /\ regularObjInfo' = mapDelete(regularObjInfo, objName)
                    /\ caller' = [call EXCEPT !.pc = "delete",
                                              !.list = <<regularObjInfo[objName]>>]
                    /\ dnsLock' = "caller"
                    /\ UNCHANGED wildcardObjInfo
               ELSE IF wildcardExists
               THEN /\ wildcardObjInfo' = mapDelete(wildcardObjInfo, objName)
                    /\ \E dnsNameList \in MapOrders(owned) :
                          caller' = [call EXCEPT !.pc = "delete", !.list = dnsNameList]
                    /\ dnsLock' = "caller"
                    /\ UNCHANGED regularObjInfo
               ELSE /\ caller' = call
                    /\ UNCHANGED <<regularObjInfo, wildcardObjInfo, dnsLock>>
            /\ UNCHANGED <<dnsNames, added, deleted, timerLoop>>
            /\ UNCHANGED <<specName, status, now, lastOp, retryVars, serveVars, informerVars, moreVars>>

\* one round of the loop of Delete over dnsNameList, up to the next round,
\* to the return or to the send on a full deleted channel
DeleteName ==
    /\ caller.pc = "delete"
    /\ IF Len(caller.list) = 0
       THEN /\ caller' = [caller EXCEPT !.pc = "idle"]
            /\ dnsLock' = "none"
            /\ UNCHANGED <<dnsNames, deleted>>
       ELSE LET dnsName == Head(caller.list)
                rest == [caller EXCEPT !.list = Tail(caller.list)]
                resolvedName == clearedResolvedName(dnsNames[dnsName], caller.matchesRegular)
            IN  /\ UNCHANGED dnsLock
                /\ IF dnsName \notin DOMAIN dnsNames
                   THEN /\ caller' = rest
                        /\ UNCHANGED <<dnsNames, deleted>>
                   ELSE IF ~resolvedName.regularObjExists /\ ~resolvedName.wildcardObjExists
                   THEN /\ dnsNames' = mapDelete(dnsNames, dnsName)
                        /\ IF Len(deleted) = 0
                           THEN /\ deleted' = <<dnsName>>
                                /\ caller' = [rest EXCEPT !.sent = Append(caller.sent, dnsName)]
                           ELSE /\ caller' = [rest EXCEPT !.pc = "deleteSend",
                                                          !.dnsName = dnsName]
                                /\ UNCHANGED deleted
                   ELSE /\ dnsNames' = mapPut(dnsNames, dnsName, resolvedName)
                        /\ caller' = rest
                        /\ UNCHANGED deleted
    /\ UNCHANGED <<regularObjInfo, wildcardObjInfo, added, timerLoop>>
    /\ UNCHANGED <<updVars, retryVars, serveVars, informerVars, moreVars>>

\* the send of Delete goes through once the deleted channel has room
DeleteSend ==
    /\ caller.pc = "deleteSend"
    /\ Len(deleted) = 0
    /\ deleted' = <<caller.dnsName>>
    /\ caller' = [caller EXCEPT !.pc = "delete", !.dnsName = <<>>,
                                !.sent = Append(caller.sent, caller.dnsName)]
    /\ UNCHANGED <<dnsNames, regularObjInfo, wildcardObjInfo, added, dnsLock, timerLoop>>
    /\ UNCHANGED <<updVars, retryVars, serveVars, informerVars, moreVars>>

\* case <-res.added
StartAdded ==
    /\ timerLoop.pc = "select"
    /\ added = 1
    /\ added' = 0
    /\ timerLoop' = [timerLoop EXCEPT !.pc = "recompute"]
    /\ UNCHANGED <<dnsNames, regularObjInfo, wildcardObjInfo, deleted, dnsLock, caller>>
    /\ UNCHANGED <<updVars, retryVars, serveVars, informerVars, moreVars>>

\* case <-timer.C: lookupDNSName is called for the armed name, if any
StartTimer ==
    /\ timerLoop.pc = "select"
    /\ now >= timerLoop.deadline
    /\ timerLoop' = IF Len(timerLoop.nextDNSName) > 0
                    THEN [timerLoop EXCEPT !.pc = "lookup", !.lookup = timerLoop.nextDNSName]
                    ELSE [timerLoop EXCEPT !.pc = "recompute"]
    /\ UNCHANGED <<dnsNames, regularObjInfo, wildcardObjInfo, added, deleted, dnsLock, caller>>
    /\ UNCHANGED <<updVars, retryVars, serveVars, informerVars, moreVars>>

\* lookupDNSName returns
StartLookupDone ==
    /\ timerLoop.pc = "lookup"
    /\ timerLoop' = [timerLoop EXCEPT !.pc = "recompute", !.lookup = <<>>]
    /\ UNCHANGED <<dnsNames, regularObjInfo, wildcardObjInfo, added, deleted, dnsLock, caller>>
    /\ UNCHANGED <<updVars, retryVars, serveVars, informerVars, moreVars>>

\* case deletedDNSName = <-res.deleted
StartDeleted_Continue ==
    /\ timerLoop.pc = "select"
    /\ Len(deleted) > 0
    /\ deleted' = <<>>
    /\ timerLoop' = timerLoop
    /\ UNCHANGED <<dnsNames, regularObjInfo, wildcardObjInfo, added, dnsLock, caller>>
    /\ UNCHANGED <<updVars, retryVars, serveVars, informerVars, moreVars>>

\* case deletedDNSName = <-res.deleted
StartDeleted ==
    /\ timerLoop.pc = "select"
    /\ Len(deleted) > 0
    /\ deleted' = <<>>
    /\ timerLoop' = IF timerLoop.nextDNSName # Head(deleted)
                    THEN timerLoop
                    ELSE [timerLoop EXCEPT !.pc = "recompute"]
    /\ UNCHANGED <<dnsNames, regularObjInfo, wildcardObjInfo, added, dnsLock, caller>>
    /\ UNCHANGED <<updVars, retryVars, serveVars, informerVars, moreVars>>

\* the tail of the loop of Start: getNextDNSNameDetails under dnsLock, the
\* new period, timer.Reset
StartRecompute ==
    /\ timerLoop.pc = "recompute"
    /\ dnsLock = "none"
    /\ \E next \in getNextDNSNameDetails(dnsNames) :
          LET timeTillNextLookup ==
                  timeTillNextLookupOf(next.exists, next.minNextLookupTime - now)
          IN  timerLoop' = [timerLoop EXCEPT !.pc = "select",
                                             !.nextDNSName = next.dns,
                                             !.numIPs = next.numIPs,
                                             !.exists = next.exists,
                                             !.timeTillNextLookup = timeTillNextLookup,
                                             !.deadline = now + timeTillNextLookup]
    /\ UNCHANGED <<dnsNames, regularObjInfo, wildcardObjInfo, added, deleted, dnsLock, caller>>
    /\ UNCHANGED <<updVars, retryVars, serveVars, informerVars, moreVars>>

SchedTick ==
    /\ now < MaxTicks * SchedTickStep
    /\ now' = now + SchedTickStep
    /\ UNCHANGED <<specName, status, lastOp, nOps>>
    /\ UNCHANGED <<retryVars, serveVars, informerVars, schedVars, moreVars>>

SchedNext ==
    \/ Add
    \/ AddSend
    \/ Delete
    \/ DeleteName
    \/ DeleteSend
    \/ StartAdded
    \/ StartTimer
    \/ StartLookupDone
    \/ StartDeleted
    \/ StartRecompute
    \/ SchedTick

SpecSched == SchedInit /\ [][SchedNext]_vars

(* SpecSchedFair: the scheduler with a loop of Start that keeps running.    *)
(* The clock of the model counts in steps of SchedTickStep; a timer armed   *)
(* with one millisecond fires within the current step of the clock.  The    *)
(* callers make calls of Add only.                                          *)

\* case <-timer.C for a timer that was armed with 1 ms for an expired name
StartTimerElapsed ==
    /\ timerLoop.pc = "select"
    /\ timerLoop.timeTillNextLookup = 1 * Millisecond
    /\ timerLoop' = IF Len(timerLoop.nextDNSName) > 0
                    THEN [timerLoop EXCEPT !.pc = "lookup", !.lookup = timerLoop.nextDNSName]
                    ELSE [timerLoop EXCEPT !.pc = "recompute"]
    /\ UNCHANGED <<dnsNames, regularObjInfo, wildcardObjInfo, added, deleted, dnsLock, caller>>
    /\ UNCHANGED <<updVars, retryVars, serveVars, informerVars, moreVars>>

FairAdd == nOps < MaxFairCalls /\ Add

SchedFairNext ==
    \/ FairAdd
    \/ AddSend
    \/ StartAdded
    \/ StartTimer
    \/ StartTimerElapsed
    \/ StartLookupDone
    \/ StartRecompute
    \/ SchedTick

\* the goroutine of Start and a caller blocked in a send are scheduled as
\* long as they can take a step, time passes, and the select of Start, which
\* picks at random among the cases that are ready, does not pass over a case
\* that is ready again and again
SchedFairness ==
    /\ WF_vars(AddSend)
    /\ SF_vars(StartAdded)
    /\ SF_vars(StartTimer)
    /\ SF_vars(StartTimerElapsed)
    /\ WF_vars(StartLookupDone)
    /\ WF_vars(StartRecompute)
    /\ WF_vars(SchedTick)

SpecSchedFair == SchedInit /\ [][SchedFairNext]_vars /\ SchedFairness

-----------------------------------------------------------------------------
(* SpecLookup: calls of lookupDNSName, one after another.  Each lists the   *)
(* endpoint slices of the CoreDNS pods, collects the addresses of the       *)
(* endpoints that are not marked ready=false, samples some of them and      *)
(* sends an A and an AAAA query to every sampled address.                   *)

maxCoreDNSPodIPs == 5

\* Conditions.Ready of an endpoint is a *bool
EndpointReady == {"nil", "true", "false"}

\* the numIPs lookupDNSName is called with
LookupNumIPs == {0, 1, 2}

\* the endpoint slices the cache lists: none; one slice with a ready and a
\* not ready endpoint; only endpoints that are not ready; three addresses in
\* two slices; six addresses in two slices next to one that is not ready;
\* one endpoint that two slices carry at the same time
LookupEpLists ==
    {<<>>,
     << <<[ready |-> "true", addresses |-> <<"10.0.0.1">>],
          [ready |-> "false", addresses |-> <<"10.0.0.2">>]>> >>,
     << <<[ready |-> "false", addresses |-> <<"10.0.0.1", "10.0.0.2">>]>> >>,
     << <<[ready |-> "nil", addresses |-> <<"10.0.0.1", "10.0.0.2">>]>>,
        <<[ready |-> "true", addresses |-> <<"10.0.0.3">>]>> >>,
     << <<[ready |-> "true", addresses |-> <<"10.0.0.1", "10.0.0.2", "10.0.0.3">>],
          [ready |-> "false", addresses |-> <<"10.0.0.7">>]>>,
        <<[ready |-> "nil", addresses |-> <<"10.0.0.4", "10.0.0.5">>],
          [ready |-> "true", addresses |-> <<"10.0.0.6">>]>> >>,
     << <<[ready |-> "true", addresses |-> <<"10.0.0.1">>]>>,
        <<[ready |-> "true", addresses |-> <<"10.0.0.1">>]>> >>}

\* the loop over the endpoints of one slice: ips after endpoint i and on
RECURSIVE endpointIPs(_, _, _)
endpointIPs(endpoints, i, ips) ==
    IF i > Len(endpoints)
    THEN ips
    ELSE IF endpoints[i].ready = "false"
    THEN endpointIPs(endpoints, i + 1, ips)
    ELSE endpointIPs(endpoints, i + 1, ips \o endpoints[i].addresses)

\* the loop over epList.Items
RECURSIVE coreDNSPodIPs(_, _, _)
coreDNSPodIPs(items, j, ips) ==
    IF j > Len(items)
    THEN ips
    ELSE coreDNSPodIPs(items, j + 1, endpointIPs(items[j], 1, ips))

\* ips[index] = ips[len-1]; ips = ips[:len-1], with index counted from 1
swapToTail(ips, index) ==
    [n \in 1..(Len(ips) - 1) |-> IF n = index THEN ips[Len(ips)] ELSE ips[n]]

\* the query lookupDNSName sends after it sent n queries: type A to every
\* sampled address, then type AAAA to every sampled address
nextQuery(randomIPs, n) ==
    [recordType |-> IF n < Len(randomIPs) THEN TypeA ELSE TypeAAAA,
     ip |-> randomIPs[(n % Len(randomIPs)) + 1]]

LookupInit ==
    /\ specName = <<>>
    /\ status = <<>>
    /\ now = 0
    /\ lastOp = NoOp
    /\ nOps = 0
    /\ resourceVersion = 1
    /\ lister = [rv |-> 1, names |-> <<>>]
    /\ events = <<>>
    /\ loops = <<>>
    /\ NoServe
    /\ NoInformer
    /\ NoSched
    /\ NoMore

\* lookupDNSName is called: numCoreDNSPodIPs, and getRandomCoreDNSPodIP up to
\* its error returns, to "randomIPs = ips" or to the first random choice
LookupDNSName ==
    \E numIPs \in LookupNumIPs, listErr \in BOOLEAN, items \in LookupEpLists :
        LET numCoreDNSPodIPs == IF numIPs <= 1 THEN 1 ELSE maxCoreDNSPodIPs
            epList == IF listErr THEN <<>> ELSE items
            ips == coreDNSPodIPs(epList, 1, <<>>)
            call == [IdleLookup EXCEPT !.numIPs = numIPs, !.listErr = listErr,
                                       !.epList = epList,
                                       !.numCoreDNSPodIPs = numCoreDNSPodIPs]
        IN  /\ podLookup.pc = "idle"
            /\ podLookup' =
                  IF listErr
                  THEN [call EXCEPT !.pc = "done", !.err = "list"]
                  ELSE IF Len(ips) = 0
                  THEN [call EXCEPT !.pc = "done", !.err = "no ips found"]
                  ELSE IF Len(ips) <= numCoreDNSPodIPs
                  THEN [call EXCEPT !.pc = "exchange", !.randomIPs = ips]
                  ELSE [call EXCEPT !.pc = "pick", !.ips = ips]
            /\ UNCHANGED <<updVars, retryVars, serveVars, informerVars, schedVars>>
            /\ UNCHANGED <<shutVars, crdVars, raceVars>>

\* one round of the loop "for i := 0; i < maxIPs; i++"
PickRandomIP ==
    /\ podLookup.pc = "pick"
    /\ \E index \in 1..Len(podLookup.ips) :
          podLookup' =
              [podLookup EXCEPT
                  !.randomIPs = Append(@, podLookup.ips[index]),
                  !.ips = IF podLookup.i + 1 < podLookup.numCoreDNSPodIPs
                          THEN swapToTail(podLookup.ips, index) ELSE <<>>,
                  !.i = IF podLookup.i + 1 < podLookup.numCoreDNSPodIPs THEN @ + 1 ELSE 0,
                  !.pc = IF podLookup.i + 1 < podLookup.numCoreDNSPodIPs
                         THEN "pick" ELSE "exchange"]
    /\ UNCHANGED <<updVars, retryVars, serveVars, informerVars, schedVars>>
    /\ UNCHANGED <<shutVars, crdVars, raceVars>>

\* dnsClient.Exchange for the next record type and pod: it succeeds or
\* fails, and the failure is logged
Exchange ==
    /\ podLookup.pc = "exchange"
    /\ \E failed \in BOOLEAN :
          podLookup' =
              [podLookup EXCEPT
                  !.sent = Append(@, nextQuery(podLookup.randomIPs, Len(podLookup.sent))),
                  !.failed = @ \/ failed,
                  !.pc = IF Len(podLookup.sent) + 1 < 2 * Len(podLookup.randomIPs)
                         THEN "exchange" ELSE "done",
                  !.err = IF Len(podLookup.sent) + 1 < 2 * Len(podLookup.randomIPs)
                          THEN "none" ELSE "nil"]
    /\ UNCHANGED <<updVars, retryVars, serveVars, informerVars, schedVars>>
    /\ UNCHANGED <<shutVars, crdVars, raceVars>>

\* lookupDNSName has returned; the caller goes on
LookupReturn ==
    /\ podLookup.pc = "done"
    /\ podLookup' = IdleLookup
    /\ UNCHANGED <<updVars, retryVars, serveVars, informerVars, schedVars>>
    /\ UNCHANGED <<shutVars, crdVars, raceVars>>

LookupNext == LookupDNSName \/ PickRandomIP \/ Exchange \/ LookupReturn

SpecLookup == LookupInit /\ [][LookupNext]_vars

-----------------------------------------------------------------------------
(* SpecShutdown: goroutines that call the OnShutdown callback of the plugin, *)
(* one after another or at the same time.                                    *)

ShutCallers == {"s1", "s2", "s3"}

IdleShut == [pc |-> "idle", calls |-> 0, nils |-> 0, errs |-> 0]

\* mutant: Lock does not wait for the holder
mutexFree_NoExclusion(holder) == TRUE

\* sync.Mutex: Lock returns when no goroutine holds the mutex
mutexFree(holder) == holder = "none"

ShutInit ==
    /\ specName = <<>>
    /\ status = <<>>
    /\ now = 0
    /\ lastOp = NoOp
    /\ nOps = 0
    /\ resourceVersion = 1
    /\ lister = [rv |-> 1, names |-> <<>>]
    /\ events = <<>>
    /\ loops = <<>>
    /\ NoServe
    /\ NoInformer
    /\ NoSched
    /\ NoLookup
    /\ NoCRD
    /\ NoRace
    /\ stopLock = "none"
    /\ shutdown = FALSE
    /\ stopCh = 0
    /\ onShut = [c \in ShutCallers |-> IdleShut]

\* a goroutine calls onShut
OnShutdown(c) ==
    /\ onShut[c].pc = "idle"
    /\ onShut[c].calls < MaxShutCalls
    /\ onShut' = [onShut EXCEPT ![c].pc = "lock", ![c].calls = @ + 1]
    /\ UNCHANGED <<stopLock, shutdown, stopCh>>
    /\ UNCHANGED <<updVars, retryVars, serveVars, informerVars, schedVars>>
    /\ UNCHANGED <<lookupVars, crdVars, raceVars>>

\* resolver.stopLock.Lock()
OnShutLock(c) ==
    /\ onShut[c].pc = "lock"
    /\ mutexFree(stopLock)
    /\ stopLock' = c
    /\ onShut' = [onShut EXCEPT ![c].pc = "locked"]
    /\ UNCHANGED <<shutdown, stopCh>>
    /\ UNCHANGED <<updVars, retryVars, serveVars, informerVars, schedVars>>
    /\ UNCHANGED <<lookupVars, crdVars, raceVars>>

\* "if !resolver.shutdown": close(resolver.stopCh), or the return of the
\* error with the deferred Unlock
OnShutCheck(c) ==
    /\ onShut[c].pc = "locked"
    /\ IF ~shutdown
       THEN /\ stopCh' = stopCh + 1
            /\ onShut' = [onShut EXCEPT ![c].pc = "closed"]
            /\ UNCHANGED stopLock
       ELSE /\ onShut' = [onShut EXCEPT ![c].pc = "idle", ![c].errs = @ + 1]
            /\ stopLock' = "none"
            /\ UNCHANGED stopCh
    /\ UNCHANGED shutdown
    /\ UNCHANGED <<updVars, retryVars, serveVars, informerVars, schedVars>>
    /\ UNCHANGED <<lookupVars, crdVars, raceVars>>

\* resolver.shutdown = true
OnShutSet(c) ==
    /\ onShut[c].pc = "closed"
    /\ shutdown' = TRUE
    /\ onShut' = [onShut EXCEPT ![c].pc = "return"]
    /\ UNCHANGED <<stopLock, stopCh>>
    /\ UNCHANGED <<updVars, retryVars, serveVars, informerVars, schedVars>>
    /\ UNCHANGED <<lookupVars, crdVars, raceVars>>

\* return nil, with the deferred Unlock
OnShutReturn(c) ==
    /\ onShut[c].pc = "return"
    /\ stopLock' = "none"
    /\ onShut' = [onShut EXCEPT ![c].pc = "idle", ![c].nils = @ + 1]
    /\ UNCHANGED <<shutdown, stopCh>>
    /\ UNCHANGED <<updVars, retryVars, serveVars, informerVars, schedVars>>
    /\ UNCHANGED <<lookupVars, crdVars, raceVars>>

ShutNext ==
    \E c \in ShutCallers :
        \/ OnShutdown(c)
        \/ OnShutLock(c)
        \/ OnShutCheck(c)
        \/ OnShutSet(c)
        \/ OnShutReturn(c)

SpecShutdown == ShutInit /\ [][ShutNext]_vars

-----------------------------------------------------------------------------
(* SpecCRD: the reconciler of the DNSNameResolver CRD.  Worker goroutines   *)
(* call Reconcile; the first call that gets past ensureDNSNameResolverCRD   *)
(* runs the function of startCaches, which launches one goroutine that      *)
(* calls Start and one that calls WaitForCacheSync for every dependent      *)
(* cache and waits for the latter, and then the function of                 *)
(* startControllers, which launches one goroutine per dependent controller. *)

Reconcilers == {"r1", "r2"}

DependentCaches == {"cache1", "cache2"}

DependentControllers == {"ctrl1", "ctrl2"}

IdleReconcile == [pc |-> "idle", calls |-> 0, ensured |-> FALSE]

\* a goroutine launched with "go": not launched, launched, or running its
\* call; starts counts the invocations of Start
NoGoroutine == [start |-> "none", sync |-> "none", starts |-> 0]

\* sync.Once: Do runs the function in the first call only
onceNew(once) == once = "new"

CRDInit ==
    /\ specName = <<>>
    /\ status = <<>>
    /\ now = 0
    /\ lastOp = NoOp
    /\ nOps = 0
    /\ resourceVersion = 1
    /\ lister = [rv |-> 1, names |-> <<>>]
    /\ events = <<>>
    /\ loops = <<>>
    /\ NoServe
    /\ NoInformer
    /\ NoSched
    /\ NoLookup
    /\ NoShut
    /\ NoRace
    /\ reconcilers = [r \in Reconcilers |-> IdleReconcile]
    /\ startCaches = "new"
    /\ startControllers = "new"
    /\ dependentCaches = [k \in DependentCaches |-> NoGoroutine]
    /\ dependentControllers = [c \in DependentControllers |-> NoGoroutine]

\* Reconcile is called and ensureDNSNameResolverCRD returns: with an error
\* Reconcile returns it
Reconcile(r) ==
    /\ reconcilers[r].pc = "idle"
    /\ reconcilers[r].calls < MaxReconciles
    /\ \E err \in BOOLEAN :
          reconcilers' =
              [reconcilers EXCEPT
                  ![r] = IF err
                         THEN [@ EXCEPT !.calls = @ + 1]
                         ELSE [@ EXCEPT !.calls = @ + 1, !.pc = "startCaches",
                                        !.ensured = TRUE]]
    /\ UNCHANGED <<startCaches, startControllers, dependentCaches, dependentControllers>>
    /\ UNCHANGED <<updVars, retryVars, serveVars, informerVars, schedVars>>
    /\ UNCHANGED <<lookupVars, shutVars, raceVars>>

\* r.startCaches.Do: the first call runs the function up to wg.Wait(); a
\* call that finds the function done goes on; a call made while the
\* function runs waits in Do
StartCachesDo(r) ==
    /\ reconcilers[r].pc = "startCaches"
    /\ IF onceNew(startCaches)
       THEN /\ startCaches' = r
            /\ dependentCaches' =
                  [k \in DependentCaches |->
                      [dependentCaches[k] EXCEPT !.start = "launched", !.sync = "launched"]]
            /\ reconcilers' = [reconcilers EXCEPT ![r].pc = "wait"]
       ELSE /\ startCaches = "done"
            /\ reconcilers' = [reconcilers EXCEPT ![r].pc = "startControllers"]
            /\ UNCHANGED <<startCaches, dependentCaches>>
    /\ UNCHANGED <<startControllers, dependentControllers>>
    /\ UNCHANGED <<updVars, retryVars, serveVars, informerVars, schedVars>>
    /\ UNCHANGED <<lookupVars, shutVars, raceVars>>

\* the goroutine "go func() { (*cache).Start(ctx) }" runs
CacheStart(k) ==
    /\ dependentCaches[k].start = "launched"
    /\ dependentCaches' = [dependentCaches EXCEPT ![k].start = "invoked",
                                                   ![k].starts = @ + 1]
    /\ UNCHANGED <<reconcilers, startCaches, startControllers, dependentControllers>>
    /\ UNCHANGED <<updVars, retryVars, serveVars, informerVars, schedVars>>
    /\ UNCHANGED <<lookupVars, shutVars, raceVars>>

\* WaitForCacheSync returns in its goroutine: true once the cache was
\* started and has synced, false when it gave up (the context ended)
CacheWaitForSync(k) ==
    /\ dependentCaches[k].sync = "launched"
    /\ \E started \in BOOLEAN :
          /\ started => dependentCaches[k].start = "invoked"
          /\ dependentCaches' = [dependentCaches EXCEPT ![k].sync = "returned"]
    /\ UNCHANGED <<reconcilers, startCaches, startControllers, dependentControllers>>
    /\ UNCHANGED <<updVars, retryVars, serveVars, informerVars, schedVars>>
    /\ UNCHANGED <<lookupVars, shutVars, raceVars>>

\* wg.Wait() returns and with it the function of startCaches
StartCachesDone(r) ==
    /\ reconcilers[r].pc = "wait"
    /\ \A k \in DependentCaches : dependentCaches[k].sync = "returned"
    /\ startCaches' = "done"
    /\ reconcilers' = [reconcilers EXCEPT ![r].pc = "startControllers"]
    /\ UNCHANGED <<startControllers, dependentCaches, dependentControllers>>
    /\ UNCHANGED <<updVars, retryVars, serveVars, informerVars, schedVars>>
    /\ UNCHANGED <<lookupVars, shutVars, raceVars>>

\* r.startControllers.Do, and the return of Reconcile
StartControllersDo(r) ==
    /\ reconcilers[r].pc = "startControllers"
    /\ IF onceNew(startControllers)
       THEN /\ startControllers' = "done"
            /\ dependentControllers' =
                  [c \in DependentControllers |->
                      [dependentControllers[c] EXCEPT !.start = "launched"]]
       ELSE UNCHANGED <<startControllers, dependentControllers>>
    /\ reconcilers' = [reconcilers EXCEPT ![r].pc = "idle"]
    /\ UNCHANGED <<startCaches, dependentCaches>>
    /\ UNCHANGED <<updVars, retryVars, serveVars, informerVars, schedVars>>
    /\ UNCHANGED <<lookupVars, shutVars, raceVars>>

\* the goroutine "go func() { (*controller).Start(ctx) }" runs
ControllerStart(c) ==
    /\ dependentControllers[c].start = "launched"
    /\ dependentControllers' = [dependentControllers EXCEPT ![c].start = "invoked",
                                                             ![c].starts = @ + 1]
    /\ UNCHANGED <<reconcilers, startCaches, startControllers, dependentCaches>>
    /\ UNCHANGED <<updVars, retryVars, serveVars, informerVars, schedVars>>
    /\ UNCHANGED <<lookupVars, shutVars, raceVars>>

CRDNext ==
    \/ \E r \in Reconcilers : Reconcile(r)
    \/ \E r \in Reconcilers : StartCachesDo(r)
    \/ \E k \in DependentCaches : CacheStart(k)
    \/ \E k \in DependentCaches : CacheWaitForSync(k)
    \/ \E r \in Reconcilers : StartCachesDone(r)
    \/ \E r \in Reconcilers : StartControllersDo(r)
    \/ \E c \in DependentControllers : ControllerStart(c)

SpecCRD == CRDInit /\ [][CRDNext]_vars

-----------------------------------------------------------------------------
(* SpecRace: the watch handlers and ServeDNS as concurrent goroutines, step  *)
(* by step.  The handlers run one at a time on the goroutine of the informer *)
(* and take the lock of the index they change.  ServeDNS runs on a goroutine *)
(* per query: it reads the two indexes, calls the plugin chain and hands the *)
(* namespace maps it read to the update functions, which iterate over them.  *)
(* A namespace map is a Go map, that is a reference: the handlers change it  *)
(* in place.  A read made while a handler is about to write the same index   *)
(* is a data race: it sees the index before the write or after it, or the    *)
(* runtime ends the process ("concurrent map read and map write").           *)

ServeGoroutines == {"g1", "g2"}

RaceKeys == {<<"ns1", "o1">>, <<"ns2", "o1">>, <<"ns3", "o1">>}

RaceQNames == {WwwName, WildcardName}

IdleInformer ==
    [pc |-> "idle", kind |-> "none", ns |-> "", name |-> "", dnsName |-> <<>>,
     made |-> [d \in IndexSpecNames |-> 0], events |-> 0]

NoRef == [exists |-> FALSE, dnsName |-> <<>>, made |-> 0]

IdleServe ==
    [pc |-> "idle", qname |-> <<>>, regularDnsInfo |-> NoRef, wildcardDnsInfo |-> NoRef,
     updates |-> {}, calls |-> 0]

\* the index as the locked section of the handler leaves it
handled(inf, info) ==
    IF inf.kind = "add"
    THEN addDNSInfo(info, inf.ns, inf.name, inf.dnsName)
    ELSE deleteDNSInfo(info, inf.ns, inf.name, inf.dnsName)

\* make(namespaceDNSInfo): the namespace maps made so far for each name
madeBy(inf, info) ==
    IF inf.kind = "add" /\ inf.dnsName \notin DOMAIN info
    THEN [inf.made EXCEPT ![inf.dnsName] = @ + 1]
    ELSE inf.made

\* info[dnsName]: the reference to the namespace map of the name
namespaceDNSRef(info, made, dnsName) ==
    IF dnsName \in DOMAIN info
    THEN [exists |-> TRUE, dnsName |-> dnsName, made |-> made[dnsName]]
    ELSE NoRef

\* the pairs a range over the referenced namespace map yields: a map that was
\* taken out of the index had its last namespace deleted before
namespaceDNSPairs(info, made, ref) ==
    IF ref.exists /\ ref.dnsName \in DOMAIN info /\ made[ref.dnsName] = ref.made
    THEN {<<ns, info[ref.dnsName][ns]>> : ns \in DOMAIN info[ref.dnsName]}
    ELSE {}

\* the handler is in its locked section, about to write the index of dnsName
writing(dnsName) ==
    /\ informer.pc = "locked"
    /\ isWildcard(informer.dnsName) = isWildcard(dnsName)

RaceInit ==
    /\ specName = <<>>
    /\ status = <<>>
    /\ now = 0
    /\ lastOp = NoOp
    /\ nOps = 0
    /\ resourceVersion = 1
    /\ lister = [rv |-> 1, names |-> <<>>]
    /\ events = <<>>
    /\ loops = <<>>
    /\ NoServe
    /\ NoInformer
    /\ NoSched
    /\ NoLookup
    /\ NoShut
    /\ NoCRD
    /\ regularMapLock = "none"
    /\ wildcardMapLock = "none"
    /\ informer = IdleInformer
    /\ serve = [g \in ServeGoroutines |-> IdleServe]

\* the informer calls AddFunc for a new object; the handler returns at once
\* for a namespace that is not configured
RaceAddFunc ==
    \E key \in RaceKeys \ DOMAIN objects, dnsName \in IndexSpecNames :
        /\ informer.pc = "idle"
        /\ informer.events < MaxRaceEvents
        /\ objects' = mapPut(objects, key, dnsName)
        /\ informer' = [informer EXCEPT
                          !.events = @ + 1, !.kind = "add", !.ns = key[1],
                          !.name = key[2], !.dnsName = dnsName,
                          !.pc = IF configuredNamespace(key[1]) THEN "lock" ELSE "idle"]
        /\ UNCHANGED <<regularMapLock, wildcardMapLock, serve, lastEvent>>
        /\ UNCHANGED <<regularDNSInfo, wildcardDNSInfo, crs, req, hit, crPc, reads, writes>>
        /\ UNCHANGED <<updVars, retryVars, schedVars, lookupVars, shutVars, crdVars>>

\* the informer calls DeleteFunc for an object that is gone
RaceDeleteFunc ==
    \E key \in DOMAIN objects :
        /\ informer.pc = "idle"
        /\ informer.events < MaxRaceEvents
        /\ objects' = mapDelete(objects, key)
        /\ informer' = [informer EXCEPT
                          !.events = @ + 1, !.kind = "delete", !.ns = key[1],
                          !.name = key[2], !.dnsName = objects[key],
                          !.pc = IF configuredNamespace(key[1]) THEN "lock" ELSE "idle"]
        /\ UNCHANGED <<regularMapLock, wildcardMapLock, serve, lastEvent>>
        /\ UNCHANGED <<regularDNSInfo, wildcardDNSInfo, crs, req, hit, crPc, reads, writes>>
        /\ UNCHANGED <<updVars, retryVars, schedVars, lookupVars, shutVars, crdVars>>

\* resolver.wildcardMapLock.Lock() or resolver.regularMapLock.Lock()
HandlerLock ==
    /\ informer.pc = "lock"
    /\ IF isWildcard(informer.dnsName)
       THEN /\ wildcardMapLock = "none"
            /\ wildcardMapLock' = "informer"
            /\ UNCHANGED regularMapLock
       ELSE /\ regularMapLock = "none"
            /\ regularMapLock' = "informer"
            /\ UNCHANGED wildcardMapLock
    /\ informer' = [informer EXCEPT !.pc = "locked"]
    /\ UNCHANGED <<serve, objects, lastEvent>>
    /\ UNCHANGED <<regularDNSInfo, wildcardDNSInfo, crs, req, hit, crPc, reads, writes>>
    /\ UNCHANGED <<updVars, retryVars, schedVars, lookupVars, shutVars, crdVars>>

\* the locked section of the handler
HandlerWrite ==
    /\ informer.pc = "locked"
    /\ IF isWildcard(informer.dnsName)
       THEN /\ wildcardDNSInfo' = handled(informer, wildcardDNSInfo)
            /\ informer' = [informer EXCEPT !.pc = "unlock",
                                            !.made = madeBy(informer, wildcardDNSInfo)]
            /\ UNCHANGED regularDNSInfo
       ELSE /\ regularDNSInfo' = handled(informer, regularDNSInfo)
            /\ informer' = [informer EXCEPT !.pc = "unlock",
                                            !.made = madeBy(informer, regularDNSInfo)]
            /\ UNCHANGED wildcardDNSInfo
    /\ UNCHANGED <<regularMapLock, wildcardMapLock, serve, objects, lastEvent>>
    /\ UNCHANGED <<crs, req, hit, crPc, reads, writes>>
    /\ UNCHANGED <<updVars, retryVars, schedVars, lookupVars, shutVars, crdVars>>

\* resolver.wildcardMapLock.Unlock() or resolver.regularMapLock.Unlock()
HandlerUnlock ==
    /\ informer.pc = "unlock"
    /\ IF isWildcard(informer.dnsName)
       THEN wildcardMapLock' = "none" /\ UNCHANGED regularMapLock
       ELSE regularMapLock' = "none" /\ UNCHANGED wildcardMapLock
    /\ informer' = [informer EXCEPT !.pc = "idle"]
    /\ UNCHANGED <<serve, objects, lastEvent>>
    /\ UNCHANGED <<regularDNSInfo, wildcardDNSInfo, crs, req, hit, crPc, reads, writes>>
    /\ UNCHANGED <<updVars, retryVars, schedVars, lookupVars, shutVars, crdVars>>

\* ServeDNS is called with a query
RaceServeDNS(g) ==
    \E qname \in RaceQNames :
        /\ serve[g].pc = "idle"
        /\ serve[g].calls < MaxServes
        /\ serve' = [serve EXCEPT
                        ![g] = [IdleServe EXCEPT
                                   !.calls = serve[g].calls + 1, !.qname = qname,
                                   !.pc = IF isWildcard(qname) THEN "wildcardDNSInfo"
                                          ELSE "regularDNSInfo"]]
        /\ UNCHANGED <<regularMapLock, wildcardMapLock, informer, objects, lastEvent>>
        /\ UNCHANGED <<regularDNSInfo, wildcardDNSInfo, crs, req, hit, crPc, reads, writes>>
        /\ UNCHANGED <<updVars, retryVars, schedVars, lookupVars, shutVars, crdVars>>

\* regularDnsInfo, regularDNSExists = resolver.regularDNSInfo[qname]
ServeReadRegular(g) ==
    /\ serve[g].pc = "regularDNSInfo"
    /\ \/ serve' = [serve EXCEPT
                       ![g].pc = "wildcardDNSInfo",
                       ![g].regularDnsInfo =
                           namespaceDNSRef(regularDNSInfo, informer.made, serve[g].qname)]
       \/ /\ writing(serve[g].qname)
          /\ \/ serve' = [serve EXCEPT
                             ![g].pc = "wildcardDNSInfo",
                             ![g].regularDnsInfo =
                                 namespaceDNSRef(handled(informer, regularDNSInfo),
                                                 madeBy(informer, regularDNSInfo),
                                                 serve[g].qname)]
             \/ serve' = [serve EXCEPT ![g].pc = "fatal"]
    /\ UNCHANGED <<regularMapLock, wildcardMapLock, informer, objects, lastEvent>>
    /\ UNCHANGED <<regularDNSInfo, wildcardDNSInfo, crs, req, hit, crPc, reads, writes>>
    /\ UNCHANGED <<updVars, retryVars, schedVars, lookupVars, shutVars, crdVars>>

\* wildcardDnsInfo, wildcardDNSExists = resolver.wildcardDNSInfo[...], for the
\* queried wildcard name or for the wildcard of the queried regular name;
\* without either entry ServeDNS returns what the plugin chain returns
ServeReadWildcard(g) ==
    LET wildcard == IF isWildcard(serve[g].qname) THEN serve[g].qname
                    ELSE getWildcard(serve[g].qname)
        readIndex(info, made) ==
            LET ref == namespaceDNSRef(info, made, wildcard)
            IN  [serve EXCEPT
                    ![g].wildcardDnsInfo = ref,
                    ![g].pc = IF ~serve[g].regularDnsInfo.exists /\ ~ref.exists
                              THEN "idle" ELSE "chain"]
    IN  /\ serve[g].pc = "wildcardDNSInfo"
        /\ \/ serve' = readIndex(wildcardDNSInfo, informer.made)
           \/ /\ writing(wildcard)
              /\ \/ serve' = readIndex(handled(informer, wildcardDNSInfo),
                                  madeBy(informer, wildcardDNSInfo))
                 \/ serve' = [serve EXCEPT ![g].pc = "fatal"]
        /\ UNCHANGED <<regularMapLock, wildcardMapLock, informer, objects, lastEvent>>
        /\ UNCHANGED <<regularDNSInfo, wildcardDNSInfo, crs, req, hit, crPc, reads, writes>>
        /\ UNCHANGED <<updVars, retryVars, schedVars, lookupVars, shutVars, crdVars>>

\* the plugin chain answers; ServeDNS returns without an update for a query
\* type other than A and AAAA and for a successful answer without addresses
ServeChain(g) ==
    /\ serve[g].pc = "chain"
    /\ \E update \in BOOLEAN :
          serve' = [serve EXCEPT
                       ![g].pc = IF ~update THEN "idle"
                                 ELSE IF serve[g].regularDnsInfo.exists THEN "rangeRegular"
                                 ELSE "rangeWildcard"]
    /\ UNCHANGED <<regularMapLock, wildcardMapLock, informer, objects, lastEvent>>
    /\ UNCHANGED <<regularDNSInfo, wildcardDNSInfo, crs, req, hit, crPc, reads, writes>>
    /\ UNCHANGED <<updVars, retryVars, schedVars, lookupVars, shutVars, crdVars>>

\* "for namespace, objName := range namespaceDNS" over the namespace map read
\* from the regular index
ServeRangeRegular(g) ==
    LET rangeMap(info, made) ==
            [serve EXCEPT
                ![g].updates = namespaceDNSPairs(info, made, serve[g].regularDnsInfo),
                ![g].pc = IF serve[g].wildcardDnsInfo.exists THEN "rangeWildcard"
                          ELSE "idle"]
    IN  /\ serve[g].pc = "rangeRegular"
        /\ \/ serve' = rangeMap(regularDNSInfo, informer.made)
           \/ /\ writing(serve[g].regularDnsInfo.dnsName)
              /\ \/ serve' = rangeMap(handled(informer, regularDNSInfo),
                                   madeBy(informer, regularDNSInfo))
                 \/ serve' = [serve EXCEPT ![g].pc = "fatal"]
        /\ UNCHANGED <<regularMapLock, wildcardMapLock, informer, objects, lastEvent>>
        /\ UNCHANGED <<regularDNSInfo, wildcardDNSInfo, crs, req, hit, crPc, reads, writes>>
        /\ UNCHANGED <<updVars, retryVars, schedVars, lookupVars, shutVars, crdVars>>

\* the same range over the namespace map read from the wildcard index
ServeRangeWildcard(g) ==
    LET rangeMap(info, made) ==
            [serve EXCEPT
                ![g].updates = @ \cup namespaceDNSPairs(info, made, serve[g].wildcardDnsInfo),
                ![g].pc = "idle"]
    IN  /\ serve[g].pc = "rangeWildcard"
        /\ \/ serve' = rangeMap(wildcardDNSInfo, informer.made)
           \/ /\ writing(serve[g].wildcardDnsInfo.dnsName)
              /\ \/ serve' = rangeMap(handled(informer, wildcardDNSInfo),
                                   madeBy(informer, wildcardDNSInfo))
                 \/ serve' = [serve EXCEPT ![g].pc = "fatal"]
        /\ UNCHANGED <<regularMapLock, wildcardMapLock, informer, objects, lastEvent>>
        /\ UNCHANGED <<regularDNSInfo, wildcardDNSInfo, crs, req, hit, crPc, reads, writes>>
        /\ UNCHANGED <<updVars, retryVars, schedVars, lookupVars, shutVars, crdVars>>

RaceNext ==
    \/ RaceAddFunc
    \/ RaceDeleteFunc
    \/ HandlerLock
    \/ HandlerWrite
    \/ HandlerUnlock
    \/ \E g \in ServeGoroutines : RaceServeDNS(g)
    \/ \E g \in ServeGoroutines : ServeReadRegular(g)
    \/ \E g \in ServeGoroutines : ServeReadWildcard(g)
    \/ \E g \in ServeGoroutines : ServeChain(g)
    \/ \E g \in ServeGoroutines : ServeRangeRegular(g)
    \/ \E g \in ServeGoroutines : ServeRangeWildcard(g)

SpecRace == RaceInit /\ [][RaceNext]_vars

-----------------------------------------------------------------------------
(* Properties of SpecUpd *)

NextLookupTime(addr) == addr.last + addr.ttl

\* position (1-based) of the entry for dnsName, 0 when there is none
PosOf(names, dnsName) ==
    IF dnsName \in NamesOf(names)
    THEN CHOOSE i \in DOMAIN names : names[i].dnsName = dnsName
    ELSE 0

\* C1: a failure update removes the entry of the queried name only if, in the
\* status it read, resolutionFailures >= failureThreshold and every address has
\* lastLookupTime + ttl <= now; otherwise the entry stays.
C1_Removable(names, q, t) ==
    \E i \in DOMAIN names :
        /\ names[i].dnsName = q
        /\ names[i].failures >= failureThreshold
        /\ \A k \in DOMAIN names[i].addrs : NextLookupTime(names[i].addrs[k]) <= t

\* C1: removal by a failure update implies the removal precondition
C1_RemovedOnlyIfThresholdAndExpired ==
    [][(/\ lastOp'.kind = "failure"
        /\ lastOp'.q \in NamesOf(status)
        /\ lastOp'.q \notin NamesOf(status'))
       => C1_Removable(status, lastOp'.q, now)]_vars

C1_Witness ==
    /\ lastOp.kind = "failure"
    /\ lastOp.rpc
    /\ lastOp.q \notin NamesOf(status)

\* C2: in an object whose spec.name is a wildcard, the entry of that wildcard,
\* if present, is first in status.resolvedNames
C2_WildcardEntryFirst ==
    isWildcard(specName) =>
        \A i \in DOMAIN status : status[i].dnsName = specName => i = 1

C2_Witness ==
    /\ isWildcard(specName)
    /\ Len(status) >= 2
    /\ status[1].dnsName = specName
    /\ nOps >= 3

\* C4: within every entry of status.resolvedNames the IPs of resolvedAddresses
\* are pairwise distinct
C4_UniqueIPPerResolvedName ==
    \A n \in DOMAIN status :
        \A i, j \in DOMAIN status[n].addrs :
            i # j => status[n].addrs[i].ip # status[n].addrs[j].ip

C4_Witness ==
    /\ lastOp.kind = "success"
    /\ lastOp.rpc
    /\ nOps >= 2
    /\ \E n \in DOMAIN status :
          /\ status[n].dnsName = lastOp.q
          /\ Len(status[n].addrs) = 2
          /\ status[n].addrs[1].last # status[n].addrs[2].last

\* the next lookup time of every IP of the merged wildcard address set: the
\* answered IPs at t + answered ttl, the other addresses of the existing
\* wildcard entry at their lastLookupTime + ttl
C5_MergedNextLookup(names, wildcard, ipTTLs, t) ==
    LET wpos == PosOf(names, wildcard)
        waddrs == IF wpos = 0 THEN <<>> ELSE names[wpos].addrs
        addrOf(ip) == CHOOSE a \in Range(waddrs) : a.ip = ip
    IN  [ip \in IPsOf(waddrs) \cup DOMAIN ipTTLs |->
            IF ip \in DOMAIN ipTTLs THEN t + ipTTLs[ip] ELSE NextLookupTime(addrOf(ip))]

\* a regular entry covered by the merged wildcard address set
C5_Covered(entry, names, wildcard, ipTTLs, t) ==
    LET merged == C5_MergedNextLookup(names, wildcard, ipTTLs, t)
    IN  /\ entry.dnsName # wildcard
        /\ \A k \in DOMAIN entry.addrs :
              /\ entry.addrs[k].ip \in DOMAIN merged
              /\ Abs(NextLookupTime(entry.addrs[k]) - merged[entry.addrs[k].ip]) <= MarginSeconds

\* C5: a success update for the wildcard lookup q = W on an object whose spec
\* is W removes every regular entry covered by the merged wildcard address set,
\* keeps every other entry, and leaves the entry of W first, carrying the union
\* of its previous addresses and the answered ones.
C5_WildcardAbsorbsRegulars ==
    [][(/\ isWildcard(specName)
        /\ lastOp'.kind = "success"
        /\ lastOp'.q = specName)
       => LET ipTTLs == lastOp'.ipTTLs
              wpos == PosOf(status, specName)
              previousIPs == IF wpos = 0 THEN {} ELSE IPsOf(status[wpos].addrs)
              Kept(e) == /\ e.dnsName # specName
                         /\ ~C5_Covered(e, status, specName, ipTTLs, now)
          IN  /\ Len(status') >= 1
              /\ status'[1].dnsName = specName
              /\ IPsOf(status'[1].addrs) = previousIPs \cup DOMAIN ipTTLs
              /\ Tail(status') = SelectSeq(status, Kept)]_vars

\* the entry of q in names is what a success update with ipTTLs at t would
\* write: same IP set, every next lookup time within the margin of
\* t + answered ttl, no resolution failures, Degraded = False
C6_SameAnswer(names, q, ipTTLs, t) ==
    \E i \in DOMAIN names :
        /\ names[i].dnsName = q
        /\ IPsOf(names[i].addrs) = DOMAIN ipTTLs
        /\ \A k \in DOMAIN names[i].addrs :
              Abs(NextLookupTime(names[i].addrs[k]) - (t + ipTTLs[names[i].addrs[k].ip]))
                  <= MarginSeconds
        /\ names[i].failures = 0
        /\ Len(names[i].conds) > 0
        /\ names[i].conds[1].status = ConditionFalse

\* C6 as stated: a success update whose answer equals the existing entry of q
\* (same IP set, next lookup times within the margin, failures 0, Degraded
\* False) issues no UpdateStatus call and leaves the status unchanged.
C6_SameAnswerIsNoOp ==
    [][(/\ lastOp'.kind = "success"
        /\ C6_SameAnswer(status, lastOp'.q, lastOp'.ipTTLs, now))
       => (~lastOp'.rpc /\ status' = status)]_vars

\* C6 amended: the same, provided that, when q is the wildcard of the object's
\* spec, no regular entry of the status is covered by the answered addresses;
\* the update can then be repeated with the same effect, since its
\* precondition still holds in the status it leaves.
C6_SameAnswerIsNoOpUnlessAbsorbing ==
    [][(/\ lastOp'.kind = "success"
        /\ C6_SameAnswer(status, lastOp'.q, lastOp'.ipTTLs, now)
        /\ (isWildcard(lastOp'.q) =>
              \A i \in DOMAIN status :
                  ~C5_Covered(status[i], status, lastOp'.q, lastOp'.ipTTLs, now)))
       => /\ ~lastOp'.rpc
          /\ status' = status
          /\ C6_SameAnswer(status', lastOp'.q, lastOp'.ipTTLs, now')]_vars

C6_Witness ==
    /\ lastOp.kind = "success"
    /\ ~lastOp.rpc
    /\ nOps >= 2
    /\ C6_SameAnswer(status, lastOp.q, lastOp.ipTTLs, now)
    /\ isWildcard(lastOp.q)
    /\ Len(status) >= 2

\* C11: a failure update for a name q that has no entry in the status it read
\* issues no UpdateStatus call and leaves the status as it was; no failure
\* update adds an entry to status.resolvedNames
C11_FailureCreatesNoEntry ==
    [][(lastOp'.kind = "failure" /\ nOps' = nOps + 1)
       => /\ NamesOf(status') \subseteq NamesOf(status)
          /\ Len(status') <= Len(status)
          /\ (lastOp'.q \notin NamesOf(status)
                => ~lastOp'.rpc /\ status' = status)]_vars

C11_Witness ==
    /\ lastOp.kind = "failure"
    /\ ~lastOp.rpc
    /\ lastOp.q \notin NamesOf(status)
    /\ Len(status) >= 1

\* C12: the addresses a failure update refreshes: next-lookup time not after
\* now, or within the margin of now
C12_Due(addr, t) ==
    \/ NextLookupTime(addr) <= t
    \/ Abs(NextLookupTime(addr) - t) <= MarginSeconds

C12_Failed(old, new, rcode, t) ==
    /\ new.dnsName = old.dnsName
    /\ new.failures = old.failures + 1
    /\ Len(new.conds) >= 1
    /\ new.conds[1] = FailureCondition(rcode)
    /\ Len(new.conds) = IF Len(old.conds) = 0 THEN 1 ELSE Len(old.conds)
    /\ DOMAIN new.addrs = DOMAIN old.addrs
    /\ \A k \in DOMAIN old.addrs :
          new.addrs[k] = IF C12_Due(old.addrs[k], t)
                         THEN [ip |-> old.addrs[k].ip, ttl |-> minimumTTL, last |-> t]
                         ELSE old.addrs[k]

\* C12: a failure update that finds the entry of q and keeps it adds 1 to its
\* resolutionFailures, makes its first condition Degraded=True with the reason
\* and message of the rcode, sets ttl = minimumTTL and lastLookupTime = now on
\* exactly the addresses that are due, changes nothing else in the status, and
\* calls UpdateStatus
C12_FailureUpdatesEntry ==
    [][(/\ lastOp'.kind = "failure"
        /\ nOps' = nOps + 1
        /\ lastOp'.q \in NamesOf(status)
        /\ lastOp'.q \in NamesOf(status'))
       => /\ lastOp'.rpc
          /\ Len(status') = Len(status)
          /\ \A i \in DOMAIN status :
                IF i = PosOf(status, lastOp'.q)
                THEN C12_Failed(status[i], status'[i], lastOp'.rcode, now)
                ELSE status'[i] = status[i]]_vars

C12_Witness ==
    /\ lastOp.kind = "failure"
    /\ lastOp.rpc
    /\ Len(status) >= 2
    /\ \E i \in DOMAIN status :
          /\ status[i].dnsName = lastOp.q
          /\ status[i].failures >= 1
          /\ status[i].conds[1] = FailureCondition(lastOp.rcode)
          /\ \E k, l \in DOMAIN status[i].addrs :
                /\ status[i].addrs[k].last = now
                /\ status[i].addrs[k].ttl = minimumTTL
                /\ status[i].addrs[l].last < now
                /\ NextLookupTime(status[i].addrs[l]) > now + MarginSeconds

-----------------------------------------------------------------------------
(* Properties of SpecRetry *)

\* C3: no two entries of the stored status.resolvedNames have the same
\* dnsName, under every interleaving of concurrent success and failure update
\* loops against a store that rejects a stale resourceVersion
C3_UniqueDNSName ==
    \A i, j \in DOMAIN status : i # j => status[i].dnsName # status[j].dnsName

\* two loops ran concurrently, one was rejected with a conflict and retried,
\* and the stored status holds several entries
C3_Witness ==
    /\ Len(status) >= 2
    /\ \E g \in LoopIds : loops[g].result = "updated" /\ loops[g].attempts >= 2

\* a step of the lister read of goroutine g that returns the object
C31_ListerRead(g) ==
    /\ loops[g].pc = "lister"
    /\ loops'[g] # loops[g]
    /\ loops'[g].result # "error"

\* C31: the first attempt of a loop composes from the lister's copy, and an
\* attempt that follows a conflict on an object at the resourceVersion the
\* lister still returns reads the object live and composes from the stored
\* object.
C31_StaleListerReadsLive ==
    [][\A g \in LoopIds :
          /\ (C31_ListerRead(g) /\ loops[g].attempts = 0)
                => /\ loops'[g].pc \in {"update", "done"}
                   /\ loops'[g].pc = "update" => loops'[g].obj.rv = lister.rv
          /\ (C31_ListerRead(g) /\ loops[g].attempts >= 1 /\ lister.rv = loops[g].obj.rv)
                => loops'[g].pc = "get"
          /\ (loops[g].pc = "get" /\ loops'[g].pc = "update")
                => loops'[g].obj.rv = resourceVersion]_vars

\* after a conflict the lister still showed the conflicting version, and the
\* attempt that followed has composed from the newer stored object
C31_Witness ==
    \E g \in LoopIds :
        /\ loops[g].pc = "update"
        /\ loops[g].attempts >= 2
        /\ loops[g].obj.rv = resourceVersion
        /\ lister.rv < resourceVersion

\* C40: no attempt of a loop submits an object at a resourceVersion with
\* which an earlier attempt of the same loop met a conflict.
C40_NoVersionTwice ==
    \A g \in LoopIds :
        loops[g].pc = "update" => loops[g].obj.rv \notin loops[g].conflicts

\* the IPs of the stored entry of dnsName
C25_StoredIPs(dnsName) ==
    UNION {{status[i].addrs[j].ip : j \in 1..Len(status[i].addrs)} :
              i \in {k \in DOMAIN status : status[k].dnsName = dnsName}}

\* a step in which the UpdateStatus of goroutine g returns
C25_UpdateReturns(g) == loops[g].pc = "update" /\ loops'[g] # loops[g]

-----------------------------------------------------------------------------
(* Properties of SpecServe *)

\* the request is for a name with a hit in the index
Tracked(r) == r.regular.exists \/ r.wildcard.exists

\* C7: ServeDNS returns exactly the (rcode, err) pair of the next handler, for
\* tracked and untracked names, whatever happens to the status updates, also
\* when the next handler fails without writing a message
C7_ReturnsNextHandlerResult ==
    req.pc \in {"returned", "panicked"} =>
        req.ret = [kind |-> "pair", rcode |-> req.rcode, err |-> req.err]

\* C8 as stated: a query for a tracked name whose type is neither A nor AAAA
\* changes no status and issues no UpdateStatus call, whatever the next
\* handler returns
C8_OtherTypeNoSideEffect ==
    [][(/\ req'.pc # "idle"
        /\ Tracked(req')
        /\ req'.qtype \notin {TypeA, TypeAAAA})
       => (crs' = crs /\ writes' = {})]_vars

\* C8 amended: the same for the queries the next handler answers with NoError
\* and no error (with records or with an empty answer section)
C8_OtherTypeNoErrorNoSideEffect ==
    [][(/\ req'.pc # "idle"
        /\ Tracked(req')
        /\ req'.qtype \notin {TypeA, TypeAAAA}
        /\ req'.rcode = RcodeSuccess
        /\ ~req'.err)
       => (crs' = crs /\ writes' = {})]_vars

C8_Witness ==
    /\ req.pc = "returned"
    /\ Tracked(req)
    /\ req.qtype = TypeCNAME
    /\ req.rcode = RcodeSuccess
    /\ ~req.err
    /\ Len(req.answer) > 0
    /\ \E c \in hitCRs("regular") \cup hitCRs("wildcard") : Len(crs[c]) > 0

\* the objects registered for the lower-cased name q: those whose spec is q,
\* and for a regular q those whose spec is the wildcard with q's parent
C9_Registered(q) ==
    {c \in CRSet :
        \/ SpecOf(c) = q
        \/ /\ ~isWildcard(q)
           /\ isWildcard(SpecOf(c))
           /\ Tail(SpecOf(c)) = Tail(q)}

\* C9: ServeDNS reads and updates only objects registered in the index for the
\* lower-cased query name; with no hit it reads and writes none
C9_OnlyRegisteredObjects ==
    [][req'.pc # "idle" =>
        \A c \in CRSet \ C9_Registered(ToLower(req'.name)) :
            /\ crs'[c] = crs[c]
            /\ crPc'[c] = "none"
            /\ c \notin reads'
            /\ c \notin writes']_vars

C9_Witness ==
    /\ req.pc = "returned"
    /\ req.name = <<"WWW", "Example", "com">>
    /\ writes = {<<"ns1", "www">>, <<"ns2", "www">>, <<"ns1", "wild">>}
    /\ \A c \in writes : Len(crs[c]) > 0

\* C10: when ServeDNS has returned, every goroutine it started has finished
\* and every object of both hits has had its update attempted
C10_GoroutinesJoined ==
    req.pc = "returned" =>
        /\ \A h \in HitKinds : hit[h] \in {"none", "done"}
        /\ \A c \in CRSet : crPc[c] \in {"none", "done"}
        /\ req.update # "none" =>
              \A c \in hitCRs("regular") \cup hitCRs("wildcard") : crPc[c] = "done"

C10_Witness ==
    /\ req.pc = "returned"
    /\ req.update = "success"
    /\ \A h \in HitKinds : hit[h] = "done"
    /\ \A c \in {<<"ns1", "www">>, <<"ns2", "www">>, <<"ns1", "wild">>} : crPc[c] = "done"

\* the ttlSeconds a record stands for: minimumTTL for a header TTL of 0, the
\* header TTL itself otherwise (a ttlSeconds is below 2^31, so it equals no
\* header TTL with the top bit set)
C14_KeptOrDefault(ttlSeconds, rr) ==
    IF ~rr.ttlHigh /\ rr.ttl = 0
    THEN ttlSeconds = minimumTTL
    ELSE ~rr.ttlHigh /\ ttlSeconds = rr.ttl

\* C14: an A/AAAA answer record with TTL 0 is recorded with ttlSeconds =
\* minimumTTL and a record with another TTL with that TTL, and no address in
\* a stored status has ttlSeconds = 0
C14_ZeroTTLIsMinimumTTL ==
    /\ req.update = "success" =>
          \A i \in DOMAIN req.answer :
              (/\ req.answer[i].rrtype = req.qtype
               /\ \A j \in DOMAIN req.answer :
                     (req.answer[j].rrtype = req.qtype /\ req.answer[j].ip = req.answer[i].ip)
                        => j <= i)
              => C14_KeptOrDefault(req.ipTTLs[req.answer[i].ip], req.answer[i])
    /\ \A c \in CRSet : \A n \in DOMAIN crs[c] : \A k \in DOMAIN crs[c][n].addrs :
          crs[c][n].addrs[k].ttl # 0

-----------------------------------------------------------------------------
(* Properties of SpecIndex *)

\* the index an object with spec.name dnsName is kept in
IndexFor(dnsName, regular, wildcard) == IF isWildcard(dnsName) THEN wildcard ELSE regular

\* the object name (dnsName, ns) is mapped to, "" when it is not mapped
MappedTo(info, dnsName, ns) ==
    IF dnsName \in DOMAIN info /\ ns \in DOMAIN info[dnsName]
    THEN info[dnsName][ns]
    ELSE ""

\* C15: when (n, ns) is mapped to o1, the add event of an object o2 # o1 with
\* spec.name n in ns leaves both maps unchanged, and so does the later delete
\* event of o2; no event moves the mapping of (n, ns) from one object name to
\* another, so it stays with the first object added
C15_FirstAddWins ==
    [][objects' # objects =>
        LET ev == lastEvent'
            info == IndexFor(ev.spec, regularDNSInfo, wildcardDNSInfo)
            o1 == MappedTo(info, ev.spec, ev.ns)
        IN  /\ (o1 # "" /\ o1 # ev.name)
                  => UNCHANGED <<regularDNSInfo, wildcardDNSInfo>>
            /\ \A n \in IndexSpecNames, ns \in IndexNamespaces :
                  LET old == MappedTo(IndexFor(n, regularDNSInfo, wildcardDNSInfo), n, ns)
                      new == MappedTo(IndexFor(n, regularDNSInfo', wildcardDNSInfo'), n, ns)
                  IN  old # "" /\ new # "" => new = old]_vars

\* o1 was added first, o2 was added and deleted again: o1 is still mapped
C15_Witness ==
    /\ lastEvent.kind = "delete"
    /\ lastEvent.ok
    /\ lastEvent.name = "o2"
    /\ <<lastEvent.ns, "o1">> \in DOMAIN objects
    /\ objects[<<lastEvent.ns, "o1">>] = lastEvent.spec
    /\ MappedTo(IndexFor(lastEvent.spec, regularDNSInfo, wildcardDNSInfo),
                lastEvent.spec, lastEvent.ns) = "o1"

\* no FQDN key of the map has an empty namespace map
C16_Compact(info) == \A dnsName \in DOMAIN info : DOMAIN info[dnsName] # {}

\* C16: a mapping of (n, ns) disappears only in the delete event of an object
\* with spec.name n in ns whose name is the one stored, and neither map ever
\* holds an FQDN key with an empty namespace map
C16_DeleteOnlyOwnMapping ==
    /\ [](C16_Compact(regularDNSInfo) /\ C16_Compact(wildcardDNSInfo))
    /\ [][\A n \in IndexSpecNames, ns \in IndexNamespaces :
            LET old == MappedTo(IndexFor(n, regularDNSInfo, wildcardDNSInfo), n, ns)
                new == MappedTo(IndexFor(n, regularDNSInfo', wildcardDNSInfo'), n, ns)
            IN  (old # "" /\ new = "")
                  => /\ lastEvent'.kind = "delete"
                     /\ lastEvent'.spec = n
                     /\ lastEvent'.ns = ns
                     /\ lastEvent'.name = old]_vars

\* the delete event of the mapped object o1 erased the last namespace of its
\* FQDN key while o2, rejected earlier, still exists
C16_Witness ==
    /\ lastEvent.kind = "delete"
    /\ lastEvent.ok
    /\ lastEvent.name = "o1"
    /\ configuredNamespace(lastEvent.ns)
    /\ <<lastEvent.ns, "o2">> \in DOMAIN objects
    /\ objects[<<lastEvent.ns, "o2">>] = lastEvent.spec
    /\ lastEvent.spec \notin
          DOMAIN IndexFor(lastEvent.spec, regularDNSInfo, wildcardDNSInfo)

-----------------------------------------------------------------------------
(* Properties of SpecSched *)

\* C17: in every state of the scheduler, also between two rounds of the loop
\* of Delete, every entry of dnsNames has regularObjExists or
\* wildcardObjExists set: Delete erases an entry in the round that clears
\* its last flag.
C17_EntryHasOwner ==
    \A dnsName \in DOMAIN dnsNames :
        dnsNames[dnsName].regularObjExists \/ dnsNames[dnsName].wildcardObjExists

\* Delete has returned after it erased one entry, whose last flag it
\* cleared, and kept another with one flag cleared and the other set
C17_Witness ==
    /\ caller.kind = "delete"
    /\ caller.pc = "idle"
    /\ \E dnsName \in caller.owned :
          /\ dnsName \in DOMAIN caller.before
          /\ dnsName \notin DOMAIN dnsNames
    /\ \E dnsName \in caller.owned :
          /\ dnsName \in DOMAIN dnsNames
          /\ caller.before[dnsName].regularObjExists
          /\ caller.before[dnsName].wildcardObjExists
          /\ ~dnsNames[dnsName].wildcardObjExists

\* the deleted signals the returned Delete sent for dnsName
C18_Signals(dnsName) == {i \in DOMAIN caller.sent : caller.sent[i] = dnsName}

\* Delete of a wildcard object has returned: of the names the object had
\* added, those a regular object owns are kept with wildcardObjExists
\* cleared and nothing else changed, and no signal was sent for them; the
\* others are erased, with one signal each; no other entry changed
C18_WildcardDeleted ==
    (caller.kind = "delete" /\ caller.pc = "idle" /\ caller.applied /\ ~caller.matchesRegular)
        => /\ \A dnsName \in caller.owned :
                 /\ dnsName \in DOMAIN caller.before
                 /\ IF caller.before[dnsName].regularObjExists
                    THEN /\ dnsName \in DOMAIN dnsNames
                         /\ dnsNames[dnsName] =
                               [caller.before[dnsName] EXCEPT !.wildcardObjExists = FALSE]
                         /\ C18_Signals(dnsName) = {}
                    ELSE /\ dnsName \notin DOMAIN dnsNames
                         /\ Cardinality(C18_Signals(dnsName)) = 1
           /\ \A i \in DOMAIN caller.sent : caller.sent[i] \in caller.owned
           /\ \A dnsName \in DOMAIN caller.before \ caller.owned :
                 /\ dnsName \in DOMAIN dnsNames
                 /\ dnsNames[dnsName] = caller.before[dnsName]

\* a call of Delete for an objName in neither regularObjInfo nor
\* wildcardObjInfo returns at once, with the maps and both channels as they
\* were
C18_UnknownDeleted ==
    (nOps' = nOps + 1 /\ caller'.kind = "delete" /\ ~caller'.applied)
        => /\ caller'.pc = "idle"
           /\ caller'.sent = <<>>
           /\ UNCHANGED <<dnsNames, regularObjInfo, wildcardObjInfo, added, deleted, dnsLock>>

\* C18: Delete(objName) of a wildcard object clears wildcardObjExists on
\* every name the object had added; a name without a regular owner is erased
\* and exactly one deleted signal carries it, a name a regular object still
\* owns stays with its minNextLookupTime and numIPs and without a signal;
\* Delete of an objName that was never added changes nothing and sends
\* nothing.
C18_DeleteWildcardObject == []C18_WildcardDeleted /\ [][C18_UnknownDeleted]_vars

\* Delete of the wildcard object has returned after it erased one name,
\* with one signal, and kept another, which a regular object owns
C18_Witness ==
    /\ caller.kind = "delete"
    /\ caller.pc = "idle"
    /\ caller.applied
    /\ ~caller.matchesRegular
    /\ Len(caller.sent) = 1
    /\ Cardinality(caller.owned) = 2
    /\ \E dnsName \in caller.owned :
          /\ dnsName \in DOMAIN dnsNames
          /\ dnsNames[dnsName].regularObjExists
          /\ dnsNames[dnsName].numIPs > 0

\* C19: after an Add for a dnsName without resolved addresses has taken
\* effect, the entry of that dnsName has numIPs = 0 and minNextLookupTime =
\* the time of the call + defaultMaxTTL, whether the entry is new or existed
\* before the call.
C19_NoAddressesDefaultMaxTTL ==
    (caller.kind = "add" /\ caller.pc = "idle" /\ caller.applied /\ caller.numAddrs = 0)
        => /\ caller.dnsName \in DOMAIN dnsNames
           /\ dnsNames[caller.dnsName].numIPs = 0
           /\ dnsNames[caller.dnsName].minNextLookupTime = caller.t + defaultMaxTTL

\* the period the claim gives for a remaining duration
C20_Period(exists, remainingDuration) ==
    IF ~exists \/ remainingDuration > defaultMaxTTL
    THEN defaultMaxTTL
    ELSE IF remainingDuration > 0
    THEN remainingDuration
    ELSE 2 * defaultMinTTL

\* C20: the period Start arms the timer with is defaultMaxTTL when dnsNames
\* is empty or the remaining duration of the next name exceeds
\* defaultMaxTTL, the remaining duration when it is positive and at most
\* defaultMaxTTL, and 2 * defaultMinTTL when a name exists and its remaining
\* duration is zero or negative.
C20_ArmedPeriod ==
    [][(timerLoop.pc = "recompute" /\ timerLoop'.pc = "select")
          => \E next \in getNextDNSNameDetails(dnsNames) :
                /\ timerLoop'.nextDNSName = next.dns
                /\ timerLoop'.timeTillNextLookup =
                      C20_Period(next.exists, next.minNextLookupTime - now)]_vars

\* C30: Add and Delete send on the added and the deleted channel only after
\* they released dnsLock: a call that waits for room in a channel does not
\* hold the lock.
C30_SendOutsideLock ==
    caller.pc \in {"addSend", "deleteSend"} => dnsLock # "caller"

\* C21: the scheduler does not deadlock: while a call of Add or Delete has
\* not returned, the call itself or the loop of Start can take a step,
\* whatever the loop was doing when the call began.
C21_CallCanReturn ==
    caller.pc # "idle"
        => ENABLED (AddSend \/ DeleteName \/ DeleteSend \/ StartAdded \/ StartTimer
                      \/ StartLookupDone \/ StartDeleted \/ StartRecompute)

-----------------------------------------------------------------------------
(* Properties of SpecLookup *)

\* the places of the listed endpoint slices that hold an address of an
\* endpoint not marked ready=false: <<slice, endpoint, position>>
C23_Places(epList) ==
    {p \in (DOMAIN epList) \X (1..2) \X (1..3) :
        /\ p[2] \in DOMAIN epList[p[1]]
        /\ epList[p[1]][p[2]].ready # "false"
        /\ p[3] \in DOMAIN epList[p[1]][p[2]].addresses}

C23_Addresses(epList) ==
    {epList[p[1]][p[2]].addresses[p[3]] : p \in C23_Places(epList)}

C23_Min(a, b) == IF a < b THEN a ELSE b

\* C23: once getRandomCoreDNSPodIP(k) has returned, it returned an error
\* iff no listed endpoint that is not marked ready=false carries an address;
\* otherwise its result has min(k, n) addresses, n the number of such
\* addresses, each of them the address of such an endpoint, and none of
\* them twice.
C23_RandomIPs ==
    LET n == Cardinality(C23_Places(podLookup.epList))
        failed == podLookup.pc = "done" /\ podLookup.err # "nil"
    IN  podLookup.pc \in {"exchange", "done"}
            => /\ failed <=> n = 0
               /\ ~failed =>
                     /\ Len(podLookup.randomIPs) = C23_Min(podLookup.numCoreDNSPodIPs, n)
                     /\ Range(podLookup.randomIPs) \subseteq C23_Addresses(podLookup.epList)
                     /\ Cardinality(Range(podLookup.randomIPs)) = Len(podLookup.randomIPs)

\* the queries of the record type the returned call sent to ip
C22_Queries(recordType, ip) ==
    {j \in DOMAIN podLookup.sent :
        podLookup.sent[j] = [recordType |-> recordType, ip |-> ip]}

\* C22: when lookupDNSName(name, numIPs) has returned, it sampled at most
\* one address for numIPs <= 1 and at most maxCoreDNSPodIPs otherwise, it
\* sent one A and one AAAA query to every sampled address, whether or not
\* a query failed, and it returned nil; when no address was available it
\* sent nothing and returned an error.
C22_LookupDNSName ==
    LET n == Cardinality(C23_Places(podLookup.epList))
    IN  podLookup.pc = "done"
            => /\ Len(podLookup.randomIPs)
                     <= (IF podLookup.numIPs <= 1 THEN 1 ELSE maxCoreDNSPodIPs)
               /\ \A ip \in Range(podLookup.randomIPs) :
                     /\ Cardinality(C22_Queries(TypeA, ip)) = 1
                     /\ Cardinality(C22_Queries(TypeAAAA, ip)) = 1
               /\ \A j \in DOMAIN podLookup.sent :
                     podLookup.sent[j].ip \in Range(podLookup.randomIPs)
               /\ n > 0 => podLookup.err = "nil"
               /\ n = 0 => podLookup.err # "nil" /\ podLookup.sent = <<>>

-----------------------------------------------------------------------------
(* Properties of SpecShutdown *)

RECURSIVE C26_Sum(_, _)
C26_Sum(f, S) ==
    IF S = {} THEN 0
    ELSE LET c == CHOOSE x \in S : TRUE IN f[c] + C26_Sum(f, S \ {c})

\* the calls that returned nil, and those that returned an error
C26_Nils == C26_Sum([c \in ShutCallers |-> onShut[c].nils], ShutCallers)

C26_Errs == C26_Sum([c \in ShutCallers |-> onShut[c].errs], ShutCallers)

\* C26: whatever the number and the interleaving of the calls of
\* OnShutdown, the stop channel is closed at most once, by the first call to
\* take stopLock, which is the only call that returns nil; every call that
\* comes after it returns an error and closes nothing.
C26_ClosedOnce ==
    /\ stopCh <= 1
    /\ C26_Nils <= 1
    /\ C26_Nils = 1 => stopCh = 1 /\ shutdown
    /\ C26_Errs > 0 => C26_Nils = 1
    /\ shutdown => stopCh = 1
    /\ \A c \in ShutCallers :
          onShut[c].pc \in {"closed", "return"} => C26_Nils = 0 /\ C26_Errs = 0

\* one goroutine was returned nil and then an error, another an error, and
\* of two further calls one holds stopLock and the other waits for it
C26_Witness ==
    /\ stopCh = 1
    /\ \E c \in ShutCallers : onShut[c].nils = 1 /\ onShut[c].errs = 1
    /\ \E c \in ShutCallers : onShut[c].nils = 0 /\ onShut[c].errs >= 1
    /\ \E c, d \in ShutCallers : onShut[c].pc = "lock" /\ onShut[d].pc = "locked"

-----------------------------------------------------------------------------
(* Properties of SpecCRD *)

\* C27: whatever the number and the interleaving of the calls of Reconcile,
\* Start is invoked at most once on every dependent cache and on every
\* dependent controller, and on a controller only after a call ensured the
\* CRD, Start was invoked on every dependent cache and WaitForCacheSync
\* returned for every dependent cache.
C27_StartedOnceInOrder ==
    /\ \A k \in DependentCaches : dependentCaches[k].starts <= 1
    /\ \A c \in DependentControllers :
          /\ dependentControllers[c].starts <= 1
          /\ dependentControllers[c].starts >= 1
                => /\ \E r \in Reconcilers : reconcilers[r].ensured
                   /\ \A k \in DependentCaches :
                         /\ dependentCaches[k].starts >= 1
                         /\ dependentCaches[k].sync = "returned"

-----------------------------------------------------------------------------
(* Properties of SpecRace *)

\* C29: a goroutine that is at a read or a write of the regular index, or at
\* the iteration over a namespace map of it, holds regularMapLock, and the
\* same for the wildcard index and wildcardMapLock, for the watch handlers
\* and for ServeDNS.
C29_IndexAccessLocked ==
    /\ informer.pc = "locked"
          => IF isWildcard(informer.dnsName) THEN wildcardMapLock = "informer"
             ELSE regularMapLock = "informer"
    /\ \A g \in ServeGoroutines :
          /\ serve[g].pc \in {"regularDNSInfo", "rangeRegular"} => regularMapLock = g
          /\ serve[g].pc \in {"wildcardDNSInfo", "rangeWildcard"} => wildcardMapLock = g

-----------------------------------------------------------------------------
(* Properties of SpecSchedFair *)

C28_Expired(d) == d \in DOMAIN dnsNames /\ dnsNames[d].minNextLookupTime <= now

\* C28: a tracked name whose minNextLookupTime has passed is eventually
\* looked up by the loop of Start, unless it leaves dnsNames or a call of
\* Add moves its minNextLookupTime into the future before.
C28_ExpiredNameLookedUp ==
    \A d \in SchedNames :
        C28_Expired(d) ~> (timerLoop.lookup = d \/ ~C28_Expired(d))

-----------------------------------------------------------------------------
(* Properties of SpecConflict *)

\* what a step of the loop of goroutine g may do
C24_Step(g) ==
    LET l == loops[g]
        m == loops'[g]
        conflict == l.pc = "update" /\ l.obj.rv # resourceVersion
    IN  (m # l /\ l.pc \in {"lister", "get", "update"})
            => \/ m.pc = "done" /\ m.result \in {"updated", "skipped", "error"}
               \/ m.pc = "done" /\ m.result = "conflict" /\ conflict
                    /\ l.attempts = RetrySteps
               \/ m.pc = "lister" /\ conflict /\ m.attempts = l.attempts
               \/ l.pc = "lister" /\ m.pc \in {"get", "update"}
                    /\ m.attempts = l.attempts + 1
               \/ l.pc = "get" /\ m.pc = "update" /\ m.attempts = l.attempts

\* an UpdateStatus of goroutine g that the API server accepted ends the loop
C24_Accepted(g) ==
    (loops[g].pc = "update" /\ loops'[g] # loops[g] /\ resourceVersion' # resourceVersion)
        => loops'[g].pc = "done" /\ loops'[g].result = "updated"

\* C24: a status update loop makes at most RetrySteps (5) attempts, begins a
\* further attempt only after UpdateStatus met a conflict, ends at the first
\* accepted UpdateStatus, skipped attempt or other error, and always ends,
\* also when every attempt meets a conflict.
C24_LoopTerminates ==
    /\ [](\A g \in ConflictLoops : loops[g].attempts <= RetrySteps)
    /\ [][\A g \in ConflictLoops : C24_Step(g) /\ C24_Accepted(g)]_vars
    /\ \A g \in ConflictLoops :
          (loops[g].pc \in {"lister", "get", "update"}) ~> (loops[g].pc = "done")

\* a loop ended after RetrySteps attempts that all met a conflict
C24_Witness ==
    \E g \in ConflictLoops :
        /\ loops[g].pc = "done"
        /\ loops[g].result = "conflict"
        /\ loops[g].attempts = RetrySteps

-----------------------------------------------------------------------------
(* Properties of SpecSched: the loop of Start and the deleted channel *)

\* the loop of Start takes a name from the deleted channel
C32_Receives == timerLoop.pc = "select" /\ Len(deleted) > 0 /\ deleted' = <<>>

\* a deleted name other than the armed one leaves the armed name and the
\* timer as they are; the armed name sends the loop to the recomputation,
\* which arms the timer for a name getNextDNSNameDetails returns
C32_Received ==
    /\ C32_Receives
          => IF Head(deleted) # timerLoop.nextDNSName
             THEN /\ timerLoop'.pc = "select"
                  /\ timerLoop'.nextDNSName = timerLoop.nextDNSName
                  /\ timerLoop'.numIPs = timerLoop.numIPs
                  /\ timerLoop'.timeTillNextLookup = timerLoop.timeTillNextLookup
                  /\ timerLoop'.deadline = timerLoop.deadline
             ELSE timerLoop'.pc = "recompute"
    /\ (timerLoop.pc = "recompute" /\ timerLoop'.pc = "select")
          => /\ \E next \in getNextDNSNameDetails(dnsNames) :
                   /\ timerLoop'.nextDNSName = next.dns
                   /\ timerLoop'.numIPs = next.numIPs
             /\ timerLoop'.deadline = now + timerLoop'.timeTillNextLookup

\* Delete has returned and the loop of Start has taken every name the call
\* sent: none of these names is armed
C32_NotKeptArmed ==
    (/\ caller.kind = "delete"
     /\ caller.pc = "idle"
     /\ deleted = <<>>
     /\ timerLoop.pc = "select")
        => timerLoop.nextDNSName \notin Range(caller.sent)

\* C32: when the loop of Start receives a deleted name other than the armed
\* nextDNSName it changes neither nextDNSName nor the period of the timer;
\* when it receives the armed name it recomputes the earliest name and arms
\* the timer again, so that no name stays armed once the loop has processed
\* the deleted signal of that name.
C32_DeletedSignal == []C32_NotKeptArmed /\ [][C32_Received]_vars

\* the loop of Start has just received the name it had armed: Delete erased
\* the name and sent it, the channel is empty again and the loop is about to
\* recompute
C32_Witness ==
    /\ caller.kind = "delete"
    /\ timerLoop.pc = "recompute"
    /\ deleted = <<>>
    /\ Len(timerLoop.nextDNSName) > 0
    /\ timerLoop.nextDNSName \in Range(caller.sent)
    /\ timerLoop.nextDNSName \notin DOMAIN dnsNames
    /\ DOMAIN dnsNames # {}
    /\ now < timerLoop.deadline

\* dnsName is an entry of names with the least minNextLookupTime
C33_Minimal(names, dnsName) ==
    /\ dnsName \in DOMAIN names
    /\ \A other \in DOMAIN names :
          names[dnsName].minNextLookupTime <= names[other].minNextLookupTime

\* what the loop of Start gets from getNextDNSNameDetails: no name exactly
\* when dnsNames is empty, otherwise an entry with the least
\* minNextLookupTime, with the numIPs and the minNextLookupTime of that entry
C33_Returned ==
    (timerLoop.pc = "recompute" /\ timerLoop'.pc = "select")
        => /\ timerLoop'.exists = (DOMAIN dnsNames # {})
           /\ IF timerLoop'.exists
              THEN /\ C33_Minimal(dnsNames, timerLoop'.nextDNSName)
                   /\ timerLoop'.numIPs = dnsNames[timerLoop'.nextDNSName].numIPs
                   /\ timerLoop'.timeTillNextLookup =
                         timeTillNextLookupOf(TRUE,
                             dnsNames[timerLoop'.nextDNSName].minNextLookupTime - now)
              ELSE timerLoop'.nextDNSName = <<>>

\* the loop of Start waits in its select, both channels are empty and no
\* call waits to send: the armed name is an entry of dnsNames with the least
\* minNextLookupTime, or empty when dnsNames is empty
C33_ArmedIsEarliest ==
    (/\ timerLoop.pc = "select"
     /\ added = 0
     /\ deleted = <<>>
     /\ caller.pc \notin {"addSend", "deleteSend"})
        => IF DOMAIN dnsNames = {}
           THEN timerLoop.nextDNSName = <<>>
           ELSE C33_Minimal(dnsNames, timerLoop.nextDNSName)

\* C33: getNextDNSNameDetails returns exists = false exactly when dnsNames
\* is empty, and otherwise a name whose minNextLookupTime is the least of all
\* entries, with the minNextLookupTime and numIPs of that entry; whenever the
\* loop of Start waits with no added or deleted signal pending, the armed
\* nextDNSName is such a name of the current dnsNames, or empty when
\* dnsNames is empty.
C33_EarliestName == []C33_ArmedIsEarliest /\ [][C33_Returned]_vars

\* the loop waits with the earlier of two names armed, no signal pending
C33_Witness ==
    /\ timerLoop.pc = "select"
    /\ added = 0
    /\ deleted = <<>>
    /\ caller.pc = "idle"
    /\ DOMAIN dnsNames = SchedNames
    /\ \E other \in SchedNames :
          dnsNames[timerLoop.nextDNSName].minNextLookupTime
              < dnsNames[other].minNextLookupTime

\* C36: the loop of Start never issues a lookup for a name that is absent
\* from dnsNames at the moment of the lookup: once Delete has erased a name
\* and returned, no later fire of the timer looks that name up, however
\* Delete, the timer and the pending signals interleave.
C36_NoLookupOfErasedName ==
    [][(timerLoop.pc = "select" /\ timerLoop'.pc = "lookup" /\ caller.pc = "idle")
          => timerLoop'.lookup \in DOMAIN dnsNames]_vars

\* C38: after Delete(objName) has been called for every object name that
\* was passed to Add, dnsNames, regularObjInfo and wildcardObjInfo are empty
\* and getNextDNSNameDetails reports no name, whatever calls of Add and
\* Delete came before.  Only Delete removes an object name from
\* regularObjInfo and wildcardObjInfo and every applied Add enters one, so
\* with both maps empty and no call running every object that was added has
\* been deleted since, and a further Delete of any object name returns
\* without a write.
C38_EmptyAfterDeletes ==
    (caller.pc = "idle" /\ regularObjInfo = <<>> /\ wildcardObjInfo = <<>>)
        => /\ dnsNames = <<>>
           /\ \A next \in getNextDNSNameDetails(dnsNames) : ~next.exists

-----------------------------------------------------------------------------
(* Properties of SpecUpd: the removals of a success update *)

\* names without the entries at the positions, counted from 0, of the list
\* indicesToRemove, the others in their order
C34_Without(names, indicesToRemove) ==
    LET kept == {i \in DOMAIN names : i - 1 \notin Range(indicesToRemove)}
        nth(k) == CHOOSE i \in kept : Cardinality({j \in kept : j <= i}) = k
    IN  [k \in 1..Cardinality(kept) |-> names[nth(k)]]

\* the calls of removeResolvedNames a success update for dnsName makes on an
\* object with status names
C34_Calls(specDNSName, names, dnsName, ipTTLs, order, t) ==
    LET st0 == [names |-> names,
                existingIndex |-> 0,
                foundResolvedName |-> FALSE,
                matchedWildcard |-> FALSE,
                statusUpdated |-> FALSE,
                indicesMatchingWildcard |-> <<>>]
        st == successWalk(names, 0, st0, specDNSName, dnsName, ipTTLs, order, t)
    IN  IF isWildcard(dnsName)
        THEN {[indicesToRemove |-> st.indicesMatchingWildcard, names |-> st.names]}
        ELSE IF st.matchedWildcard
        THEN {[indicesToRemove |-> IF st.foundResolvedName
                                   THEN <<st.existingIndex>> ELSE <<>>,
               names |-> st.names]}
        ELSE {}

\* C34: removeResolvedNames removes exactly the entries at the positions
\* listed in indicesToRemove, an ascending list that need not start at 0 nor
\* be contiguous, keeps every other entry in its order, and returns true
\* exactly when it removed an entry.
C34_RemovesListedPositions ==
    \A q \in UpdQueries(specName), answer \in UpdAnswers :
        LET p == parseAnswer(TypeA, answer, minimumTTL)
        IN  \A order \in MapOrders(DOMAIN p.ipTTLs) :
                \A c \in C34_Calls(specName, status, q, p.ipTTLs, order, now) :
                    removeResolvedNames(c.indicesToRemove, c.names) =
                        [names |-> C34_Without(c.names, c.indicesToRemove),
                         removed |-> Len(c.indicesToRemove) > 0]

\* every answered IP is an address of entry with a next lookup time within
\* the margin of t + answered ttl, and entry has as many IPs as the answer
C35_AnswerInEntry(entry, ipTTLs, t) ==
    /\ \A ip \in DOMAIN ipTTLs :
          \E k \in DOMAIN entry.addrs :
              /\ entry.addrs[k].ip = ip
              /\ Abs(NextLookupTime(entry.addrs[k]) - (t + ipTTLs[ip])) <= MarginSeconds
    /\ Cardinality(IPsOf(entry.addrs)) = Cardinality(DOMAIN ipTTLs)

\* a success update for a regular name the wildcard covers is applied to an
\* object with a wildcard spec whose first entry is the wildcard entry, and
\* the answer is in that entry
C35_CoveredUpdate ==
    /\ isWildcard(specName)
    /\ Len(status) >= 1
    /\ status[1].dnsName = specName
    /\ lastOp'.kind = "success"
    /\ nOps' = nOps + 1
    /\ ~isWildcard(lastOp'.q)
    /\ C35_AnswerInEntry(status[1], lastOp'.ipTTLs, now)

\* C35 as stated: on an object with a wildcard spec whose first entry is the
\* wildcard entry, a success update for a regular name q it covers, whose
\* answered IPs are all in the wildcard entry with next lookup times within
\* the margin and as many as the IPs of the wildcard entry, leaves the status
\* without an entry for q: none is added when q had none, and an existing
\* entry of q is deleted.
C35_CoveredRegularHasNoEntry ==
    [][C35_CoveredUpdate => PosOf(status', lastOp'.q) = 0]_vars

\* C35: such an update adds no entry for q when q had none, and leaves the
\* status as it was; an entry q already had is not deleted: it stays at its
\* position, holds its previous IPs and the answered ones, and the other
\* entries stay as they were.
C35_CoveredRegularNotAdded ==
    [][C35_CoveredUpdate
          => LET pos == PosOf(status, lastOp'.q)
             IN  IF pos = 0
                 THEN status' = status
                 ELSE /\ Len(status') = Len(status)
                      /\ \A i \in DOMAIN status : i # pos => status'[i] = status[i]
                      /\ status'[pos].dnsName = lastOp'.q
                      /\ IPsOf(status'[pos].addrs) =
                            IPsOf(status[pos].addrs) \cup DOMAIN lastOp'.ipTTLs]_vars

\* the entry of a regular name was kept by a success update whose answer is
\* in the wildcard entry, the first of the status
C35_Witness ==
    /\ isWildcard(specName)
    /\ Len(status) >= 2
    /\ status[1].dnsName = specName
    /\ lastOp.kind = "success"
    /\ ~isWildcard(lastOp.q)
    /\ PosOf(status, lastOp.q) > 1
    /\ C35_AnswerInEntry(status[1], lastOp.ipTTLs, now)
    /\ IPsOf(status[PosOf(status, lastOp.q)].addrs) # DOMAIN lastOp.ipTTLs

-----------------------------------------------------------------------------
(* Properties of SpecIndex: the objects the index tracks *)

\* the index that holds the objects with spec dnsName
C37_Info(dnsName) == IF isWildcard(dnsName) THEN wildcardDNSInfo ELSE regularDNSInfo

\* C37: the name index is complete: once every watch event has been
\* delivered, for every object that exists in a monitored namespace ns with
\* spec n the index of n maps ns to an existing object with spec n; so after
\* two objects with the same n and ns were added and the one added first is
\* deleted, the other one is tracked.
C37_IndexComplete ==
    \A key \in DOMAIN objects :
        LET ns == key[1]
            n == objects[key]
            info == C37_Info(n)
        IN  configuredNamespace(ns)
                => /\ n \in DOMAIN info
                   /\ ns \in DOMAIN info[n]
                   /\ <<ns, info[n][ns]>> \in DOMAIN objects
                   /\ objects[<<ns, info[n][ns]>>] = n

-----------------------------------------------------------------------------
(* Properties of SpecLag *)

\* the IPs the stored status will hold for q after the step: those of the
\* entry of q and those of the entry of the wildcard of q
C39_StoredFor(q) ==
    UNION {{status'[i].addrs[j].ip : j \in 1..Len(status'[i].addrs)} :
              i \in {k \in DOMAIN status' :
                        status'[k].dnsName \in {q, getWildcard(q)}}}

\* C39: when the loop of a success update ends without error, the stored
\* status holds every answered IP, under the entry of q or under the entry of
\* the wildcard of q; and an attempt is skipped only on a copy of the object
\* that is at the stored resourceVersion.
C39_SkipOnlyOnStoredVersion ==
    [][\A g \in ConflictLoops :
          /\ (/\ loops[g].pc # "done"
              /\ loops'[g].pc = "done"
              /\ loops'[g].kind = "success"
              /\ loops'[g].result \in {"updated", "skipped"})
                => DOMAIN loops'[g].ipTTLs \subseteq C39_StoredFor(loops'[g].q)
          /\ (loops[g].pc = "lister" /\ loops'[g].result = "skipped")
                => lister.rv = resourceVersion]_vars

====
